---- MODULE Spec2Model ----
(***************************************************************************)
(* Full-stack todo backend (fullstack-todo-app/backend/app): the user and  *)
(* task tables, the JWT issuer/verifier, the authorization gate, the auth  *)
(* service and the todo service, as a state machine over HTTP requests.    *)
(*                                                                         *)
(* Time is counted in ticks, TicksPerSecond to the second; a JWT claim is  *)
(* a NumericDate, the whole seconds of an instant.                         *)
(* A nullable column or claim is a sequence: <<>> is None, <<x>> is x.     *)
(***************************************************************************)
EXTENDS Integers, Sequences, FiniteSets, TLC

VARIABLES
    now,        \* wall-clock UTC, in ticks
    users,      \* committed rows of table "users", in insertion order
    todos,      \* committed rows of table "todos", in insertion order
    minted,     \* every token the server has signed so far, with its instant
    jti_seq,    \* number of refresh tokens signed so far (uuid4 jti freshness)
    registered, \* history: the (email, password, user id) of every successful signup
    last,       \* the request just handled and its response, until delivered
    pc,         \* concurrent signup: each request's position in UserService.create
    req,        \* concurrent signup: each request's body
    pending,    \* concurrent signup: rows flushed by an open transaction, uncommitted
    resp,       \* concurrent signup: each request's response
    _todos,     \* CLI TodoStore._todos: the dict's entries, in insertion order
    _next_id,   \* CLI TodoStore._next_id
    out         \* CLI: the last call on the store or the service, and its outcome

vars == <<now, users, todos, minted, jti_seq, registered, last, pc, req, pending, resp,
          _todos, _next_id, out>>

authVars == <<now, users, todos, minted, jti_seq, registered, last>>
raceVars == <<pc, req, pending, resp>>
cliVars == <<_todos, _next_id, out>>

(***************************************************************************)
(* Bounds of the model.                                                    *)
(***************************************************************************)
MaxUsers == 2
MaxTodos == 2
MaxIssues == 3
MaxTicks == 2
TicksPerSecond == 2
NumSignups == 2
GateMaxIssues == 2
GateMaxTodos == 1
MaxRows == 50
MaxAdds == 3
MaxCliTicks == 1

(***************************************************************************)
(* Program constants.                                                      *)
(***************************************************************************)
ACCESS_TOKEN_EXPIRE_MINUTES == 15
REFRESH_TOKEN_EXPIRE_DAYS == 7
SECONDS_PER_MINUTE == 60
SECONDS_PER_DAY == 86400

None == <<>>
Some(x) == <<x>>
IsNone(v) == Len(v) = 0
Get(v) == v[1]

Max(a, b) == IF a >= b THEN a ELSE b

(***************************************************************************)
(* Strings that the code case-normalizes are sequences of characters.      *)
(***************************************************************************)
LowerChar(c) ==
    CASE c = "A" -> "a"
      [] c = "B" -> "b"
      [] c = "C" -> "c"
      [] c = "E" -> "e"
      [] c = "I" -> "i"
      [] c = "L" -> "l"
      [] c = "M" -> "m"
      [] c = "N" -> "n"
      [] c = "O" -> "o"
      [] c = "P" -> "p"
      [] c = "T" -> "t"
      [] OTHER -> c

\* str.lower()
Lower(s) == [i \in DOMAIN s |-> LowerChar(s[i])]

Emails == {<<"a">>, <<"A">>, <<"b">>}
Usernames == {"alice", "bob"}
Passwords == {"pw1", "pw2"}

(***************************************************************************)
(* app/security/password.py (bcrypt): a salted one-way hash and its check. *)
(***************************************************************************)
hash_password(password) == [alg |-> "bcrypt", of |-> password]

verify_password(password, password_hash) == password_hash.of = password

(***************************************************************************)
(* app/utils/exceptions.py and app/middleware/error_handler.py             *)
(***************************************************************************)
AppException(kind, message, status_code) ==
    [kind |-> kind, message |-> message, status_code |-> status_code, app |-> TRUE]

AuthenticationError(message) == AppException("AuthenticationError", message, 401)
NotFoundError(message) == AppException("NotFoundError", message, 404)
ConflictError(message) == AppException("ConflictError", message, 409)

\* an exception that is no AppException (sqlalchemy.exc.IntegrityError, ...)
OtherException(kind) ==
    [kind |-> kind, message |-> kind, status_code |-> 500, app |-> FALSE]

\* jose.JWTError as wrapped by verify_token, and the other TokenError messages
TokenError(message) ==
    [kind |-> "TokenError", message |-> message, status_code |-> 500, app |-> FALSE]

Ok(val) == [ok |-> TRUE, val |-> val]
Raise(exc) == [ok |-> FALSE, exc |-> exc]

\* a service result that also carries the table as the session leaves it
OkT(val, table) == [ok |-> TRUE, val |-> val, table |-> table]

\* an exception raised after the session has flushed work: table is the
\* table as the session then sees it
RaiseIn(exc, table) == [ok |-> FALSE, exc |-> exc, table |-> table]

\* await session.refresh(...) after a flush, with the database failing there
\* when fault holds
Refresh(r, fault) ==
    IF fault /\ r.ok THEN RaiseIn(OtherException("OperationalError"), r.table) ELSE r

\* get_db_session that commits what the session holds, whatever the handler did
get_db_session_commit_always(committed, r) ==
    IF "table" \in DOMAIN r THEN r.table ELSE committed

\* get_db_session around a handler whose outcome is r: commit when the
\* handler returned, rollback when it raised
get_db_session(committed, r) == IF r.ok THEN r.table ELSE committed

NoCookie == [op |-> "none"]
SetCookie(token) == [op |-> "set", key |-> "refresh_token", value |-> token]
DeleteCookie == [op |-> "delete", key |-> "refresh_token"]

\* APIResponse(success=True, data=..., timestamp=now)
APIResponse(status, data, cookie, t) ==
    [status |-> status,
     body |-> [success |-> TRUE, data |-> data, error |-> None, timestamp |-> t],
     cookie |-> cookie]

app_exception_handler(exc, t) ==
    [status |-> exc.status_code,
     body |-> [success |-> FALSE, data |-> None, error |-> Some(exc.message),
               timestamp |-> t],
     cookie |-> NoCookie]

general_exception_handler(exc, t) ==
    [status |-> 500,
     body |-> [success |-> FALSE, data |-> None,
               error |-> Some("An unexpected error occurred"), timestamp |-> t],
     cookie |-> NoCookie]

\* the handler FastAPI picks for an exception raised while serving a request
ErrorResponse(exc, t) ==
    IF exc.app THEN app_exception_handler(exc, t)
    ELSE general_exception_handler(exc, t)

\* a body the request schema rejects: FastAPI's own 422 response, sent
\* without the handler being called
RequestValidationResponse ==
    [status |-> 422, body |-> [detail |-> "validation error"], cookie |-> NoCookie]

\* HTTPBearer() with no usable Authorization header: FastAPI's own
\* HTTPException response, which is not an APIResponse envelope
NotAuthenticatedResponse ==
    [status |-> 401, body |-> [detail |-> "Not authenticated"], cookie |-> NoCookie]

(***************************************************************************)
(* app/models/user.py and app/services/user_service.py                     *)
(***************************************************************************)
User(id, email, username, password_hash, t) ==
    [id |-> id, email |-> email, username |-> username,
     password_hash |-> password_hash,
     created_at |-> t, updated_at |-> t, deleted_at |-> None]

is_deleted(row) == ~IsNone(row.deleted_at)

\* result.scalar_one_or_none() over the rows a query selects
ScalarOneOrNone(table, idxs) ==
    IF idxs = {} THEN None ELSE Some(table[CHOOSE i \in idxs : \A j \in idxs : i <= j])

get_by_id(U, user_id) ==
    ScalarOneOrNone(U, {i \in DOMAIN U : U[i].id = user_id /\ IsNone(U[i].deleted_at)})

\* get_by_email comparing the address as it was typed
get_by_email_exact(U, email) ==
    ScalarOneOrNone(U, {i \in DOMAIN U :
                           U[i].email = email /\ IsNone(U[i].deleted_at)})

get_by_email(U, email) ==
    ScalarOneOrNone(U, {i \in DOMAIN U :
                           U[i].email = Lower(email) /\ IsNone(U[i].deleted_at)})

get_by_username(U, username) ==
    ScalarOneOrNone(U, {i \in DOMAIN U :
                           U[i].username = username /\ IsNone(U[i].deleted_at)})

\* the unique indexes ix_users_email and ix_users_username, over every row
UniqueViolation(U, row) ==
    \E i \in DOMAIN U :
        U[i].id # row.id /\ (U[i].email = row.email \/ U[i].username = row.username)

\* uuid4() for a new users row
NewUserId(U) == Len(U) + 1

\* UserService.create storing the address as it was typed
UserService_create_raw_email(U, email, username, password_hash, t) ==
    IF ~IsNone(get_by_email(U, email))
    THEN Raise(ConflictError("Email already registered"))
    ELSE IF ~IsNone(get_by_username(U, username))
    THEN Raise(ConflictError("Username already taken"))
    ELSE LET user == User(NewUserId(U), email, username, password_hash, t)
         IN  IF UniqueViolation(U, user)
             THEN Raise(OtherException("IntegrityError"))
             ELSE OkT(user, Append(U, user))

\* UserService.create
UserService_create(U, email, username, password_hash, t) ==
    IF ~IsNone(get_by_email(U, email))
    THEN Raise(ConflictError("Email already registered"))
    ELSE IF ~IsNone(get_by_username(U, username))
    THEN Raise(ConflictError("Username already taken"))
    ELSE LET user == User(NewUserId(U), Lower(email), username, password_hash, t)
         IN  IF UniqueViolation(U, user)
             THEN Raise(OtherException("IntegrityError"))
             ELSE OkT(user, Append(U, user))

\* UserService.update_username
\* update_username that writes the name into the first row of the table
update_username_first_row(U, user_id, new_username, t) ==
    LET user == get_by_id(U, user_id)
        existing == get_by_username(U, new_username)
    IN  IF IsNone(user) THEN Raise(NotFoundError("User not found"))
        ELSE IF ~IsNone(existing) /\ Get(existing).id # user_id
        THEN Raise(ConflictError("Username already taken"))
        ELSE LET row == [U[1] EXCEPT !.username = new_username, !.updated_at = t]
             IN  IF UniqueViolation(U, row)
                 THEN Raise(OtherException("IntegrityError"))
                 ELSE OkT(row, [U EXCEPT ![1] = row])

update_username(U, user_id, new_username, t) ==
    LET user == get_by_id(U, user_id)
        existing == get_by_username(U, new_username)
    IN  IF IsNone(user) THEN Raise(NotFoundError("User not found"))
        ELSE IF ~IsNone(existing) /\ Get(existing).id # user_id
        THEN Raise(ConflictError("Username already taken"))
        ELSE LET i == CHOOSE i \in DOMAIN U : U[i].id = user_id
                 changed == Get(user).username # new_username
                 row == [Get(user) EXCEPT !.username = new_username,
                                          !.updated_at = IF changed THEN t ELSE @]
             IN  IF UniqueViolation(U, row)
                 THEN Raise(OtherException("IntegrityError"))
                 ELSE OkT(row, [U EXCEPT ![i] = row])

(***************************************************************************)
(* app/security/jwt.py over python-jose.  A compact JWS is its payload     *)
(* together with the key that signed it; anything else is no JWS at all.   *)
(***************************************************************************)
JWT_SECRET_KEY == "settings.jwt_secret_key"
OTHER_KEY == "some other key"

\* str(user_id) and UUID(text)
StrOfUUID(id) == <<"uuid", id>>
IsUUIDText(text) == Len(text) = 2 /\ text[1] = "uuid"
UUIDOfStr(text) == text[2]

\* The clock counts ticks, TicksPerSecond of them to the second.
\* timedelta(minutes=settings.access_token_expire_minutes) and
\* timedelta(days=settings.refresh_token_expire_days), in ticks
AccessTTL == ACCESS_TOKEN_EXPIRE_MINUTES * SECONDS_PER_MINUTE * TicksPerSecond
RefreshTTL == REFRESH_TOKEN_EXPIRE_DAYS * SECONDS_PER_DAY * TicksPerSecond

\* timegm(d.utctimetuple()): the whole seconds of instant d, which is how
\* jwt.encode writes a datetime claim and how jwt.decode reads the clock
timegm(d) == d \div TicksPerSecond

\* jwt.encode(payload, key, algorithm)
jwt_encode(payload, key) == [fmt |-> "jws", payload |-> payload, sig |-> key]

Garbage == [fmt |-> "garbage"]

create_access_token(user_id, t) ==
    jwt_encode([sub |-> StrOfUUID(user_id), type |-> "access",
                exp |-> timegm(t + AccessTTL), iat |-> timegm(t), jti |-> None],
               JWT_SECRET_KEY)

\* create_refresh_token without a jti claim
create_refresh_token_no_jti(user_id, t, jti) ==
    jwt_encode([sub |-> StrOfUUID(user_id), type |-> "refresh",
                exp |-> timegm(t + RefreshTTL), iat |-> timegm(t), jti |-> None],
               JWT_SECRET_KEY)

\* jti is the uuid4() drawn for this token
create_refresh_token(user_id, t, jti) ==
    jwt_encode([sub |-> StrOfUUID(user_id), type |-> "refresh",
                exp |-> timegm(t + RefreshTTL), iat |-> timegm(t), jti |-> Some(jti)],
               JWT_SECRET_KEY)

\* jwt.decode with options verify_signature = False
jwt_decode_unverified(token, key, t) ==
    IF token.fmt # "jws" THEN Raise(TokenError("Invalid token: Not enough segments"))
    ELSE IF token.payload.exp < timegm(t)
    THEN Raise(TokenError("Invalid token: Signature has expired."))
    ELSE Ok(token.payload)

\* jwt.decode(token, key, algorithms): JWTError on a malformed token or a bad
\* signature, ExpiredSignatureError (a JWTError) once exp < timegm(now)
jwt_decode(token, key, t) ==
    IF token.fmt # "jws" THEN Raise(TokenError("Invalid token: Not enough segments"))
    ELSE IF token.sig # key
    THEN Raise(TokenError("Invalid token: Signature verification failed."))
    ELSE IF token.payload.exp < timegm(t)
    THEN Raise(TokenError("Invalid token: Signature has expired."))
    ELSE Ok(token.payload)

\* verify_token without its check of the type claim
verify_token_untyped(token, token_type, t) ==
    LET decoded == jwt_decode(token, JWT_SECRET_KEY, t)
    IN  IF ~decoded.ok THEN decoded
        ELSE IF Len(decoded.val.sub) = 0
        THEN Raise(TokenError("Token missing subject claim"))
        ELSE decoded

verify_token(token, token_type, t) ==
    LET decoded == jwt_decode(token, JWT_SECRET_KEY, t)
    IN  IF ~decoded.ok THEN decoded
        ELSE IF decoded.val.type # token_type
        THEN Raise(TokenError(IF token_type = "access"
                              THEN "Invalid token type. Expected access"
                              ELSE "Invalid token type. Expected refresh"))
        ELSE IF Len(decoded.val.sub) = 0
        THEN Raise(TokenError("Token missing subject claim"))
        ELSE decoded

get_user_id_from_token(token, token_type, t) ==
    LET payload == verify_token(token, token_type, t)
    IN  IF ~payload.ok THEN payload
        ELSE IF ~IsUUIDText(payload.val.sub)
        THEN Raise(TokenError("Invalid user ID in token"))
        ELSE Ok(UUIDOfStr(payload.val.sub))

(***************************************************************************)
(* app/dependencies.py: the authorization gate and the refresh cookie      *)
(***************************************************************************)
\* an Authorization header is None or Some(bearer credentials); a result
\* with http = TRUE is HTTPBearer's own rejection, raised before the gate runs
get_current_user(authorization, U, t) ==
    IF IsNone(authorization)
    THEN [ok |-> FALSE, http |-> TRUE]
    ELSE LET user_id == get_user_id_from_token(Get(authorization), "access", t)
         IN  IF ~user_id.ok
             THEN [ok |-> FALSE, http |-> FALSE,
                   exc |-> AuthenticationError(user_id.exc.message)]
             ELSE LET user == get_by_id(U, user_id.val)
                  IN  IF IsNone(user) \/ is_deleted(Get(user))
                      THEN [ok |-> FALSE, http |-> FALSE,
                            exc |-> AuthenticationError("User not found")]
                      ELSE [ok |-> TRUE, val |-> Get(user)]

\* the response of a request the gate rejected
GateResponse(auth, t) ==
    IF auth.http THEN NotAuthenticatedResponse ELSE ErrorResponse(auth.exc, t)

\* get_refresh_token_user_id with a revocation list: a refresh token is
\* refused once a later one was signed for its subject
get_refresh_token_user_id_revoking(refresh_token, t) ==
    IF IsNone(refresh_token)
    THEN Raise(AuthenticationError("Refresh token required"))
    ELSE LET user_id == get_user_id_from_token(Get(refresh_token), "refresh", t)
         IN  IF ~user_id.ok THEN Raise(AuthenticationError(user_id.exc.message))
             ELSE IF \E m \in minted :
                        /\ m.token.payload.type = "refresh"
                        /\ m.token.payload.sub = Get(refresh_token).payload.sub
                        /\ Get(m.token.payload.jti) > Get(Get(refresh_token).payload.jti)
             THEN Raise(AuthenticationError("Token revoked"))
             ELSE user_id

get_refresh_token_user_id(refresh_token, t) ==
    IF IsNone(refresh_token)
    THEN Raise(AuthenticationError("Refresh token required"))
    ELSE LET user_id == get_user_id_from_token(Get(refresh_token), "refresh", t)
         IN  IF ~user_id.ok THEN Raise(AuthenticationError(user_id.exc.message))
             ELSE user_id

(***************************************************************************)
(* app/services/auth_service.py                                            *)
(***************************************************************************)
TokenData(access_token) == [access_token |-> access_token, token_type |-> "bearer"]

\* AuthService.register_user; jti is the uuid4() of the refresh token
register_user(U, email, username, password, t, jti) ==
    LET created == UserService_create(U, email, username, hash_password(password), t)
    IN  IF ~created.ok THEN created
        ELSE [ok |-> TRUE, table |-> created.table, user |-> created.val,
              token_data |-> TokenData(create_access_token(created.val.id, t)),
              refresh_token |-> create_refresh_token(created.val.id, t, jti)]

\* AuthService.authenticate_user telling an unknown email from a wrong password
authenticate_user_enumerating(U, email, password, t, jti) ==
    LET user == get_by_email(U, email)
    IN  IF IsNone(user) THEN Raise(AuthenticationError("User not found"))
        ELSE IF ~verify_password(password, Get(user).password_hash)
        THEN Raise(AuthenticationError("Invalid credentials"))
        ELSE [ok |-> TRUE, user |-> Get(user),
              token_data |-> TokenData(create_access_token(Get(user).id, t)),
              refresh_token |-> create_refresh_token(Get(user).id, t, jti)]

\* AuthService.authenticate_user
authenticate_user(U, email, password, t, jti) ==
    LET user == get_by_email(U, email)
    IN  IF IsNone(user) THEN Raise(AuthenticationError("Invalid credentials"))
        ELSE IF ~verify_password(password, Get(user).password_hash)
        THEN Raise(AuthenticationError("Invalid credentials"))
        ELSE [ok |-> TRUE, user |-> Get(user),
              token_data |-> TokenData(create_access_token(Get(user).id, t)),
              refresh_token |-> create_refresh_token(Get(user).id, t, jti)]

\* AuthService.refresh_tokens without its lookup of the user
refresh_tokens_unchecked(U, user_id, t, jti) ==
    [ok |-> TRUE,
     token_data |-> TokenData(create_access_token(user_id, t)),
     refresh_token |-> create_refresh_token(user_id, t, jti)]

\* AuthService.refresh_tokens
refresh_tokens(U, user_id, t, jti) ==
    LET user == get_by_id(U, user_id)
    IN  IF IsNone(user) \/ is_deleted(Get(user))
        THEN Raise(AuthenticationError("User not found"))
        ELSE [ok |-> TRUE,
              token_data |-> TokenData(create_access_token(Get(user).id, t)),
              refresh_token |-> create_refresh_token(Get(user).id, t, jti)]

(***************************************************************************)
(* app/models/todo.py, app/models/schemas.py, app/services/todo_service.py *)
(***************************************************************************)
TodoStatus == {"pending", "in_progress", "completed"}
Priority == {"low", "medium", "high"}

(***************************************************************************)
(* app/utils/auto_tags.py.  A text is the sequence of its whitespace-       *)
(* separated words, as typed; what the code computes per word (lower-case   *)
(* and alphanumeric characters only, length, order, containment in a       *)
(* category name) is tabulated for the words the requests use.             *)
(***************************************************************************)
\* "".join(c for c in word.lower() if c.isalnum())
CleanWord(word) ==
    CASE word = "Test" -> "test"
      [] word = "Buy" -> "buy"
      [] word = "milk!" -> "milk"
      [] word = "Renamed" -> "renamed"
      [] word = "The" -> "the"
      [] word = "--" -> ""
      [] OTHER -> word

\* len(w) >= 4
IsLong(w) ==
    w \in {"test", "milk", "renamed", "litres", "report", "budget", "mail", "w255", "w256"}

\* the cleaned words of the requests, in the order sorted() gives them
SortedWords ==
    <<"2", "budget", "buy", "gym", "litres", "mail", "milk", "renamed", "report", "test",
      "the", "w255", "w256">>

STOP_WORDS == {"a", "an", "the", "and", "or", "to", "for", "of", "new", "now"}

CategoryOrder ==
    <<"work", "personal", "finance", "health", "learning", "tech", "urgent",
      "shopping", "errands">>

CATEGORY_KEYWORDS(category) ==
    CASE category = "work" -> {"meeting", "project", "report"}
      [] category = "personal" -> {"family", "friend"}
      [] category = "finance" -> {"budget", "payment"}
      [] category = "health" -> {"doctor", "gym"}
      [] category = "learning" -> {"study", "book", "test"}
      [] category = "tech" -> {"code", "bug", "test"}
      [] category = "urgent" -> {"urgent", "asap"}
      [] category = "shopping" -> {"buy", "purchase"}
      [] category = "errands" -> {"pickup", "mail"}

\* `word in kw`: word is a substring of the category name kw
\* (no cleaned word of the requests is a proper substring of a category name)
WordInName(word, kw) == word = kw

\* the elements of sequence s that satisfy membership in keep, in order
RECURSIVE Filter(_, _)
Filter(s, keep) ==
    IF s = <<>> THEN <<>>
    ELSE (IF Head(s) \in keep THEN <<Head(s)>> ELSE <<>>) \o Filter(Tail(s), keep)

\* the loop that appends significant words until there are 5 tags
RECURSIVE AppendWords(_, _, _)
AppendWords(tags, significant, matched) ==
    IF significant = <<>> THEN tags
    ELSE LET word == Head(significant)
             seen == \E k \in DOMAIN tags : tags[k] = word
             named == \E k \in DOMAIN matched : WordInName(word, matched[k])
             tags1 == IF ~seen /\ ~named THEN Append(tags, word) ELSE tags
         IN  IF Len(tags1) >= 5 THEN tags1
             ELSE AppendWords(tags1, Tail(significant), matched)

extract_tags(title, description) ==
    LET text == title \o (IF IsNone(description) \/ Get(description) = <<>>
                          THEN <<>> ELSE Get(description))
        words == {CleanWord(text[k]) : k \in DOMAIN text} \ ({""} \cup STOP_WORDS)
        matched_categories ==
            Filter(CategoryOrder,
                   {c \in {CategoryOrder[k] : k \in DOMAIN CategoryOrder} :
                       words \cap CATEGORY_KEYWORDS(c) # {}})
        significant_words ==
            Filter(SortedWords, {w \in words : IsLong(w) /\ w \notin STOP_WORDS})
        tags == AppendWords(matched_categories, significant_words, matched_categories)
    IN  SubSeq(tags, 1, IF Len(tags) < 5 THEN Len(tags) ELSE 5)

\* the fields of the request schemas; a body may carry others, which
\* validation drops
TodoCreateFields == {"title", "description", "status", "priority", "due_date"}
TodoUpdateFields == {"title", "description", "status", "priority", "due_date"}

\* len(word); "w255" and "w256" stand for words of 255 and 256 characters
WordChars(word) ==
    CASE word \in {"2"} -> 1
      [] word \in {"--"} -> 2
      [] word \in {"Buy", "The", "gym"} -> 3
      [] word \in {"Test", "mail"} -> 4
      [] word \in {"milk!"} -> 5
      [] word \in {"litres", "report", "budget"} -> 6
      [] word \in {"Renamed"} -> 7
      [] word = "w255" -> 255
      [] word = "w256" -> 256

\* len(text), the words being separated by one space each
RECURSIVE TextChars(_)
TextChars(text) ==
    IF text = <<>> THEN 0
    ELSE IF Len(text) = 1 THEN WordChars(text[1])
    ELSE WordChars(Head(text)) + 1 + TextChars(Tail(text))

\* _normalize_enum_value: v.strip().lower().replace("-", "_").replace(" ", "_")
NormalizeEnum(v) ==
    CASE v = "In-Progress" -> "in_progress"
      [] v = " completed " -> "completed"
      [] v = "COMPLETED" -> "completed"
      [] v = "HIGH" -> "high"
      [] OTHER -> v

\* the fields a JSON body gives as null, for title, status and priority, whose
\* values are texts and names: such a body lists them in its field "null"
\* (a null description or due_date is the value None)
Nulls(body) == IF "null" \in DOMAIN body THEN body.null ELSE {}

\* Field(min_length=1, max_length=255)
TitleOk(title) == TextChars(title) >= 1 /\ TextChars(title) <= 255

\* whether TodoCreate accepts the body
TodoCreate_valid(body) ==
    /\ "title" \in DOMAIN body
    /\ Nulls(body) \cap {"title", "status", "priority"} = {}
    /\ TitleOk(body.title)
    /\ "status" \in DOMAIN body => NormalizeEnum(body.status) \in TodoStatus
    /\ "priority" \in DOMAIN body => NormalizeEnum(body.priority) \in Priority

\* whether TodoUpdate accepts the body: every field may be left out or null
TodoUpdate_valid(body) ==
    /\ "title" \in DOMAIN body => TitleOk(body.title)
    /\ "status" \in DOMAIN body => NormalizeEnum(body.status) \in TodoStatus
    /\ "priority" \in DOMAIN body => NormalizeEnum(body.priority) \in Priority

\* TodoCreate.model_validate(body) that keeps the enum texts as typed
TodoCreate_validate_as_typed(body) ==
    [f \in TodoCreateFields |->
        IF f \in DOMAIN body THEN body[f]
        ELSE IF f = "status" THEN "pending"
        ELSE IF f = "priority" THEN "medium"
        ELSE None]

\* TodoCreate.model_validate(body) for a body TodoCreate accepts: the
\* declared fields, normalized, with the defaults for those left out
TodoCreate_validate(body) ==
    [f \in TodoCreateFields |->
        IF f \in DOMAIN body
        THEN (IF f \in {"status", "priority"} THEN NormalizeEnum(body[f]) ELSE body[f])
        ELSE IF f = "status" THEN "pending"
        ELSE IF f = "priority" THEN "medium"
        ELSE None]

\* a schema that lets the fields it does not declare through
TodoUpdate_validate_allow_extra(body) == body

\* TodoUpdate.model_validate(body).model_dump(exclude_unset=True) for a body
\* TodoUpdate accepts: the declared fields the body sets, normalized, the
\* null ones among title, status and priority still listed in "null"
TodoUpdate_validate(body) ==
    [f \in DOMAIN body \cap (TodoUpdateFields \cup {"null"}) |->
        IF f \in {"status", "priority"} THEN NormalizeEnum(body[f]) ELSE body[f]]

TodoCreate(title, description, status, priority, due_date) ==
    [title |-> title, description |-> description, status |-> status,
     priority |-> priority, due_date |-> due_date]

Todo(id, user_id, data, tags, t) ==
    [id |-> id, user_id |-> user_id, title |-> data.title,
     description |-> data.description, status |-> data.status,
     priority |-> data.priority, due_date |-> data.due_date, tags |-> tags,
     created_at |-> t, updated_at |-> t, deleted_at |-> None]

\* TodoResponse.model_validate(todo): the row without deleted_at
TodoResponse(todo) ==
    [f \in DOMAIN todo \ {"deleted_at"} |-> todo[f]]

\* uuid4() for a new todos row
NewTodoId(T) == Len(T) + 1

create_todo(T, user_id, data, t) ==
    LET tags == extract_tags(data.title, data.description)
        todo == Todo(NewTodoId(T), user_id, data, tags, t)
    IN  OkT(todo, Append(T, todo))

\* get_todo_query without its ownership clause
get_todo_query_any_owner(T, todo_id, user_id) ==
    {i \in DOMAIN T : T[i].id = todo_id /\ IsNone(T[i].deleted_at)}

\* get_todo_query without its soft-delete clause
get_todo_query_with_deleted(T, todo_id, user_id) ==
    {i \in DOMAIN T : T[i].id = todo_id /\ T[i].user_id = user_id}

\* the rows the query of get_todo selects
get_todo_query(T, todo_id, user_id) ==
    {i \in DOMAIN T : /\ T[i].id = todo_id
                      /\ T[i].user_id = user_id
                      /\ IsNone(T[i].deleted_at)}

\* get_todo telling a task of another user (403) from a missing one (404)
get_todo_forbidden(T, todo_id, user_id) ==
    LET todo == ScalarOneOrNone(T, get_todo_query(T, todo_id, user_id))
    IN  IF ~IsNone(todo) THEN Ok(Get(todo))
        ELSE IF \E i \in DOMAIN T : T[i].id = todo_id /\ T[i].user_id # user_id
        THEN Raise(AppException("AuthorizationError", "Permission denied", 403))
        ELSE Raise(NotFoundError("Todo not found"))

get_todo(T, todo_id, user_id) ==
    LET todo == ScalarOneOrNone(T, get_todo_query(T, todo_id, user_id))
    IN  IF IsNone(todo) THEN Raise(NotFoundError("Todo not found"))
        ELSE Ok(Get(todo))

\* position of the row with this primary key
RowOf(T, id) == CHOOSE i \in DOMAIN T : T[i].id = id

\* data.model_dump(exclude_unset=True) is a record of the fields the body set
\* an update that replaces the row: a field the request leaves out is reset
update_todo_replacing(T, todo_id, user_id, update_data, t) ==
    LET found == get_todo(T, todo_id, user_id)
    IN  IF ~found.ok THEN found
        ELSE LET set == [f \in DOMAIN found.val |->
                            IF f \in DOMAIN update_data THEN update_data[f]
                            ELSE IF f = "description" THEN None
                            ELSE found.val[f]]
                 todo == [set EXCEPT !.updated_at = t,
                                     !.tags = extract_tags(set.title, set.description)]
             IN  OkT(todo, [T EXCEPT ![RowOf(T, todo.id)] = todo])

\* update_todo that leaves the tags as they were
update_todo_stale_tags(T, todo_id, user_id, update_data, t) ==
    LET found == get_todo(T, todo_id, user_id)
    IN  IF ~found.ok THEN found
        ELSE IF "title" \in Nulls(update_data)
        THEN Raise(OtherException("AttributeError"))
        ELSE IF Nulls(update_data) \cap {"status", "priority"} # {}
        THEN Raise(OtherException("IntegrityError"))
        ELSE LET set == [f \in DOMAIN found.val |->
                            IF f \in DOMAIN update_data THEN update_data[f]
                            ELSE found.val[f]]
                 todo == [set EXCEPT !.updated_at = t]
             IN  OkT(todo, [T EXCEPT ![RowOf(T, todo.id)] = todo])

update_todo(T, todo_id, user_id, update_data, t) ==
    LET found == get_todo(T, todo_id, user_id)
    IN  IF ~found.ok THEN found
        \* extract_tags(None, ...) calls None.lower()
        ELSE IF "title" \in Nulls(update_data)
        THEN Raise(OtherException("AttributeError"))
        \* flush: UPDATE ... SET status = NULL on a NOT NULL column
        ELSE IF Nulls(update_data) \cap {"status", "priority"} # {}
        THEN Raise(OtherException("IntegrityError"))
        ELSE LET set == [f \in DOMAIN found.val |->
                            IF f \in DOMAIN update_data THEN update_data[f]
                            ELSE found.val[f]]
                 tagged == IF "title" \in DOMAIN update_data
                              \/ "description" \in DOMAIN update_data
                           THEN [set EXCEPT !.tags = extract_tags(set.title,
                                                                  set.description)]
                           ELSE set
                 todo == [tagged EXCEPT !.updated_at = t]
             IN  OkT(todo, [T EXCEPT ![RowOf(T, todo.id)] = todo])

soft_delete_todo(T, todo_id, user_id, t) ==
    LET found == get_todo(T, todo_id, user_id)
    IN  IF ~found.ok THEN found
        \* the UPDATE also stamps updated_at (onupdate)
        ELSE LET todo == [found.val EXCEPT !.deleted_at = Some(t), !.updated_at = t]
             IN  OkT(None, [T EXCEPT ![RowOf(T, todo.id)] = todo])

\* the subsequence of s whose elements satisfy Keep, in order
RECURSIVE SelectIdx(_, _, _)
SelectIdx(T, keep, i) ==
    IF i > Len(T) THEN <<>>
    ELSE (IF i \in keep THEN <<T[i]>> ELSE <<>>) \o SelectIdx(T, keep, i + 1)

Reverse(s) == [i \in 1..Len(s) |-> s[Len(s) + 1 - i]]

\* list_todos with total_pages rounded down
list_todos_floor_pages(T, user_id, page, per_page, status, priority, sort_order) ==
    LET base == {i \in DOMAIN T :
                    /\ T[i].user_id = user_id
                    /\ IsNone(T[i].deleted_at)
                    /\ (IsNone(status) \/ T[i].status = Get(status))
                    /\ (IsNone(priority) \/ T[i].priority = Get(priority))}
        total == Cardinality(base)
        asc == SelectIdx(T, base, 1)
        sorted == IF sort_order = "desc" THEN Reverse(asc) ELSE asc
        offset == (page - 1) * per_page
        rows == SubSeq(sorted, offset + 1, IF offset + per_page <= Len(sorted)
                                           THEN offset + per_page ELSE Len(sorted))
        total_pages == total \div per_page
    IN  [items |-> [i \in 1..Len(rows) |-> TodoResponse(rows[i])],
         page |-> page, per_page |-> per_page,
         total |-> total, total_pages |-> total_pages]

\* list_todos without the owner clause of its base query
list_todos_any_owner(T, user_id, page, per_page, status, priority, sort_order) ==
    LET base == {i \in DOMAIN T :
                    /\ IsNone(T[i].deleted_at)
                    /\ (IsNone(status) \/ T[i].status = Get(status))
                    /\ (IsNone(priority) \/ T[i].priority = Get(priority))}
        total == Cardinality(base)
        asc == SelectIdx(T, base, 1)
        sorted == IF sort_order = "desc" THEN Reverse(asc) ELSE asc
        offset == (page - 1) * per_page
        rows == SubSeq(sorted, offset + 1, IF offset + per_page <= Len(sorted)
                                           THEN offset + per_page ELSE Len(sorted))
        total_pages == IF total > 0 THEN (total + per_page - 1) \div per_page ELSE 0
    IN  [items |-> [i \in 1..Len(rows) |-> TodoResponse(rows[i])],
         page |-> page, per_page |-> per_page,
         total |-> total, total_pages |-> total_pages]

\* list_todos with sort_by = created_at: rows are inserted in created_at order
list_todos(T, user_id, page, per_page, status, priority, sort_order) ==
    LET base == {i \in DOMAIN T :
                    /\ T[i].user_id = user_id
                    /\ IsNone(T[i].deleted_at)
                    /\ (IsNone(status) \/ T[i].status = Get(status))
                    /\ (IsNone(priority) \/ T[i].priority = Get(priority))}
        total == Cardinality(base)
        asc == SelectIdx(T, base, 1)
        sorted == IF sort_order = "desc" THEN Reverse(asc) ELSE asc
        offset == (page - 1) * per_page
        rows == SubSeq(sorted, offset + 1, IF offset + per_page <= Len(sorted)
                                           THEN offset + per_page ELSE Len(sorted))
        total_pages == IF total > 0 THEN (total + per_page - 1) \div per_page ELSE 0
    IN  [items |-> [i \in 1..Len(rows) |-> TodoResponse(rows[i])],
         page |-> page, per_page |-> per_page,
         total |-> total, total_pages |-> total_pages]

(***************************************************************************)
(* Requests.  Every handler runs in one database session that get_db_session*)
(* commits when the handler returns and rolls back when it raises; here a  *)
(* request is one atomic step (the concurrent signup below is not).        *)
(***************************************************************************)
Request(op, authorization, args, response) ==
    [op |-> op, authorization |-> authorization, args |-> args, resp |-> response]

NoRequest == [op |-> "none"]

\* no response is on its way to a client
Idle == last = NoRequest

\* the client receives the response
Deliver ==
    /\ ~Idle
    /\ last' = NoRequest
    /\ UNCHANGED <<now, users, todos, minted, jti_seq, registered, raceVars, cliVars>>

\* the tokens the server has signed so far (held by clients)
issued == {m.token : m \in minted}

\* tokens signed at instant t
Mint(tokens, t) == {[token |-> k, at |-> t] : k \in tokens}

\* the tokens of one signed pair
Pair(r) == {r.token_data.access_token, r.refresh_token}

\* POST /api/v1/auth/signup; fault: the database fails at the refresh that
\* follows the INSERT
signup_request(email, username, password, fault) ==
    LET registered_user == register_user(users, email, username, password, now,
                                         jti_seq + 1)
        r == Refresh(registered_user, fault)
        args == [email |-> email, username |-> username, password |-> password]
    IN  /\ Idle
        /\ registered_user.ok => Len(users) < MaxUsers /\ jti_seq < MaxIssues
        /\ users' = get_db_session(users, r)
        /\ IF r.ok
           THEN /\ minted' = minted \cup Mint(Pair(r), now)
                /\ jti_seq' = jti_seq + 1
                /\ registered' = registered \cup
                       {[email |-> email, password |-> password, id |-> r.user.id]}
                /\ last' = Request("signup", None, args,
                               APIResponse(201, Some(r.token_data),
                                           SetCookie(r.refresh_token), now))
           ELSE /\ last' = Request("signup", None, args, ErrorResponse(r.exc, now))
                /\ UNCHANGED <<minted, jti_seq, registered>>
        /\ UNCHANGED <<now, todos, raceVars, cliVars>>

signup(email, username, password) == signup_request(email, username, password, FALSE)

\* POST /api/v1/auth/login
login(email, password) ==
    LET r == authenticate_user(users, email, password, now, jti_seq + 1)
        args == [email |-> email, password |-> password]
    IN  /\ Idle
        /\ r.ok => jti_seq < MaxIssues
        /\ IF r.ok
           THEN /\ minted' = minted \cup Mint(Pair(r), now)
                /\ jti_seq' = jti_seq + 1
                /\ last' = Request("login", None, args,
                               APIResponse(200, Some(r.token_data),
                                           SetCookie(r.refresh_token), now))
           ELSE /\ last' = Request("login", None, args, ErrorResponse(r.exc, now))
                /\ UNCHANGED <<minted, jti_seq>>
        /\ UNCHANGED <<now, users, todos, registered, raceVars, cliVars>>

\* POST /api/v1/auth/refresh; cookie is the refresh_token cookie or None
refresh_token(cookie) ==
    LET user_id == get_refresh_token_user_id(cookie, now)
        r == IF user_id.ok THEN refresh_tokens(users, user_id.val, now, jti_seq + 1)
             ELSE user_id
        args == [refresh_token |-> cookie]
    IN  /\ Idle
        /\ r.ok => jti_seq < MaxIssues
        /\ IF r.ok
           THEN /\ minted' = minted \cup Mint(Pair(r), now)
                /\ jti_seq' = jti_seq + 1
                /\ last' = Request("refresh", None, args,
                               APIResponse(200, Some(r.token_data),
                                           SetCookie(r.refresh_token), now))
           ELSE /\ last' = Request("refresh", None, args, ErrorResponse(r.exc, now))
                /\ UNCHANGED <<minted, jti_seq>>
        /\ UNCHANGED <<now, users, todos, registered, raceVars, cliVars>>

\* logout that leaves the refresh_token cookie in place
logout_keeping_cookie(authorization) ==
    LET auth == get_current_user(authorization, users, now)
    IN  /\ Idle
        /\ last' = Request("logout", authorization, [none |-> TRUE],
                       IF auth.ok THEN APIResponse(200, None, NoCookie, now)
                       ELSE GateResponse(auth, now))
        /\ UNCHANGED <<now, users, todos, minted, jti_seq, registered, raceVars, cliVars>>

\* POST /api/v1/auth/logout
logout(authorization) ==
    LET auth == get_current_user(authorization, users, now)
    IN  /\ Idle
        /\ last' = Request("logout", authorization, [none |-> TRUE],
                       IF auth.ok THEN APIResponse(200, None, DeleteCookie, now)
                       ELSE GateResponse(auth, now))
        /\ UNCHANGED <<now, users, todos, minted, jti_seq, registered, raceVars, cliVars>>

UserResponse(user) ==
    [id |-> user.id, email |-> user.email, username |-> user.username,
     created_at |-> user.created_at]

\* GET /api/v1/users/me
get_current_user_profile(authorization) ==
    LET auth == get_current_user(authorization, users, now)
    IN  /\ Idle
        /\ last' = Request("get_profile", authorization, [none |-> TRUE],
                       IF auth.ok
                       THEN APIResponse(200, Some(UserResponse(auth.val)), NoCookie, now)
                       ELSE GateResponse(auth, now))
        /\ UNCHANGED <<now, users, todos, minted, jti_seq, registered, raceVars, cliVars>>

\* PATCH /api/v1/users/me; username is UserUpdate.username (None when not sent)
update_current_user_profile(authorization, username) ==
    LET auth == get_current_user(authorization, users, now)
        args == [username |-> username]
        r == IF ~auth.ok THEN auth
             ELSE IF IsNone(username) THEN OkT(auth.val, users)
             ELSE update_username(users, auth.val.id, Get(username), now)
    IN  /\ Idle
        /\ IF ~auth.ok
           THEN /\ last' = Request("update_profile", authorization, args,
                               GateResponse(auth, now))
                /\ users' = get_db_session(users, r)
           ELSE IF r.ok
           THEN /\ users' = get_db_session(users, r)
                /\ last' = Request("update_profile", authorization, args,
                               APIResponse(200, Some(UserResponse(r.val)), NoCookie, now))
           ELSE /\ users' = get_db_session(users, r)
                /\ last' = Request("update_profile", authorization, args,
                               ErrorResponse(r.exc, now))
        /\ UNCHANGED <<now, todos, minted, jti_seq, registered, raceVars, cliVars>>

\* GET /api/v1/todos; p holds the query parameters
list_todos_endpoint(authorization, p) ==
    LET auth == get_current_user(authorization, users, now)
    IN  /\ Idle
        /\ last' = Request("list_todos", authorization, p,
                       IF auth.ok
                       THEN APIResponse(200,
                                Some(list_todos(todos, auth.val.id, p.page, p.per_page,
                                                p.status, p.priority, p.sort_order)),
                                NoCookie, now)
                       ELSE GateResponse(auth, now))
        /\ UNCHANGED <<now, users, todos, minted, jti_seq, registered, raceVars, cliVars>>

\* POST /api/v1/todos
create_todo_endpoint(authorization, data) ==
    LET auth == get_current_user(authorization, users, now)
        r == IF auth.ok THEN create_todo(todos, auth.val.id, TodoCreate_validate(data), now)
             ELSE auth
    IN  /\ Idle
        /\ auth.ok => Len(todos) < MaxRows
        /\ IF auth.ok /\ ~TodoCreate_valid(data)
           THEN /\ todos' = todos
                /\ last' = Request("create_todo", authorization, data,
                               RequestValidationResponse)
           ELSE IF auth.ok
           THEN /\ todos' = get_db_session(todos, r)
                /\ last' = Request("create_todo", authorization, data,
                               APIResponse(201, Some(TodoResponse(r.val)), NoCookie, now))
           ELSE /\ todos' = get_db_session(todos, r)
                /\ last' = Request("create_todo", authorization, data,
                               GateResponse(auth, now))
        /\ UNCHANGED <<now, users, minted, jti_seq, registered, raceVars, cliVars>>

\* GET /api/v1/todos/{todo_id}
get_todo_endpoint(authorization, todo_id) ==
    LET auth == get_current_user(authorization, users, now)
        r == IF auth.ok THEN get_todo(todos, todo_id, auth.val.id) ELSE auth
    IN  /\ Idle
        /\ last' = Request("get_todo", authorization, [todo_id |-> todo_id],
                       IF ~auth.ok THEN GateResponse(auth, now)
                       ELSE IF r.ok
                       THEN APIResponse(200, Some(TodoResponse(r.val)), NoCookie, now)
                       ELSE ErrorResponse(r.exc, now))
        /\ UNCHANGED <<now, users, todos, minted, jti_seq, registered, raceVars, cliVars>>

\* PATCH /api/v1/todos/{todo_id}; fault: the database fails at the refresh
\* that follows the UPDATE
update_todo_request(authorization, todo_id, data, fault) ==
    LET auth == get_current_user(authorization, users, now)
        r == IF auth.ok THEN Refresh(update_todo(todos, todo_id, auth.val.id,
                                                 TodoUpdate_validate(data), now), fault)
             ELSE auth
        args == [todo_id |-> todo_id, data |-> data]
    IN  /\ Idle
        /\ IF ~auth.ok
           THEN /\ todos' = get_db_session(todos, r)
                /\ last' = Request("update_todo", authorization, args,
                               GateResponse(auth, now))
           ELSE IF ~TodoUpdate_valid(data)
           THEN /\ todos' = todos
                /\ last' = Request("update_todo", authorization, args,
                               RequestValidationResponse)
           ELSE IF r.ok
           THEN /\ todos' = get_db_session(todos, r)
                /\ last' = Request("update_todo", authorization, args,
                               APIResponse(200, Some(TodoResponse(r.val)), NoCookie, now))
           ELSE /\ todos' = get_db_session(todos, r)
                /\ last' = Request("update_todo", authorization, args,
                               ErrorResponse(r.exc, now))
        /\ UNCHANGED <<now, users, minted, jti_seq, registered, raceVars, cliVars>>

update_todo_endpoint(authorization, todo_id, data) ==
    update_todo_request(authorization, todo_id, data, FALSE)

\* DELETE /api/v1/todos/{todo_id}
delete_todo_endpoint(authorization, todo_id) ==
    LET auth == get_current_user(authorization, users, now)
        r == IF auth.ok THEN soft_delete_todo(todos, todo_id, auth.val.id, now)
             ELSE auth
        args == [todo_id |-> todo_id]
    IN  /\ Idle
        /\ IF ~auth.ok
           THEN /\ todos' = get_db_session(todos, r)
                /\ last' = Request("delete_todo", authorization, args,
                               GateResponse(auth, now))
           ELSE IF r.ok
           THEN /\ todos' = get_db_session(todos, r)
                /\ last' = Request("delete_todo", authorization, args,
                               APIResponse(200, None, NoCookie, now))
           ELSE /\ todos' = get_db_session(todos, r)
                /\ last' = Request("delete_todo", authorization, args,
                               ErrorResponse(r.exc, now))
        /\ UNCHANGED <<now, users, minted, jti_seq, registered, raceVars, cliVars>>

(***************************************************************************)
(* The environment: the clock, and a users row soft-deleted outside the API*)
(***************************************************************************)
TickSteps == {1, AccessTTL, RefreshTTL}

\* the number of steps of TickSteps that add up to t
TicksUsed(t) ==
    (t \div RefreshTTL) + ((t % RefreshTTL) \div AccessTTL) + (t % AccessTTL)

Tick(d) ==
    /\ Idle
    /\ TicksUsed(now) < MaxTicks
    /\ now' = now + d
    /\ UNCHANGED <<users, todos, minted, jti_seq, registered, last, raceVars, cliVars>>

\* users.deleted_at set by an operator of the database
SoftDeleteUser(user_id) ==
    /\ Idle
    /\ \E i \in DOMAIN users :
          /\ users[i].id = user_id
          /\ IsNone(users[i].deleted_at)
          /\ users' = [users EXCEPT ![i].deleted_at = Some(now)]
    /\ UNCHANGED <<now, todos, minted, jti_seq, registered, last, raceVars, cliVars>>

(***************************************************************************)
(* Concurrent signups.  Each request runs UserService.create in its own    *)
(* session: the two existence checks read the committed rows, flush sends  *)
(* the INSERT, which the unique indexes of table users decide (waiting for *)
(* an open transaction that holds a conflicting row), and get_db_session   *)
(* commits after the handler has returned.                                 *)
(***************************************************************************)
Signups == 1..NumSignups

NumPending == Cardinality({q \in Signups : ~IsNone(pending[q])})

StartSignup(p, email, username, password) ==
    /\ pc[p] = "idle"
    /\ req' = [req EXCEPT ![p] = [email |-> email, username |-> username,
                                  password |-> password]]
    /\ pc' = [pc EXCEPT ![p] = "check_email"]
    /\ UNCHANGED <<cliVars, authVars, pending, resp>>

\* the signup of p ends in exception exc: rollback, and the handler's response
FailSignup(p, exc) ==
    /\ pc' = [pc EXCEPT ![p] = "done"]
    /\ resp' = [resp EXCEPT ![p] = Some(ErrorResponse(exc, now))]
    /\ UNCHANGED <<cliVars, authVars, req, pending>>

CheckEmail(p) ==
    /\ pc[p] = "check_email"
    /\ IF ~IsNone(get_by_email(users, req[p].email))
       THEN FailSignup(p, ConflictError("Email already registered"))
       ELSE /\ pc' = [pc EXCEPT ![p] = "check_username"]
            /\ UNCHANGED <<cliVars, authVars, req, pending, resp>>

CheckUsername(p) ==
    /\ pc[p] = "check_username"
    /\ IF ~IsNone(get_by_username(users, req[p].username))
       THEN FailSignup(p, ConflictError("Username already taken"))
       ELSE /\ pc' = [pc EXCEPT ![p] = "flush"]
            /\ UNCHANGED <<cliVars, authVars, req, pending, resp>>

\* session.add(user); await session.flush()
Flush(p) ==
    LET user == User(Len(users) + NumPending + 1, Lower(req[p].email),
                     req[p].username, hash_password(req[p].password), now)
    IN  /\ pc[p] = "flush"
        /\ \A q \in Signups \ {p} :
              IsNone(pending[q]) \/ ~UniqueViolation(pending[q], user)
        /\ IF UniqueViolation(users, user)
           THEN FailSignup(p, OtherException("IntegrityError"))
           ELSE /\ pending' = [pending EXCEPT ![p] = Some(user)]
                /\ pc' = [pc EXCEPT ![p] = "commit"]
                /\ UNCHANGED <<cliVars, authVars, req, resp>>

\* the tokens and the response of signup, then session.commit()
Commit(p) ==
    LET user == Get(pending[p])
        access == create_access_token(user.id, now)
        refresh == create_refresh_token(user.id, now, jti_seq + 1)
    IN  /\ pc[p] = "commit"
        /\ users' = Append(users, user)
        /\ pending' = [pending EXCEPT ![p] = None]
        /\ minted' = minted \cup Mint({access, refresh}, now)
        /\ jti_seq' = jti_seq + 1
        /\ registered' = registered \cup
               {[email |-> req[p].email, password |-> req[p].password, id |-> user.id]}
        /\ resp' = [resp EXCEPT ![p] =
               Some(APIResponse(201, Some(TokenData(access)), SetCookie(refresh), now))]
        /\ pc' = [pc EXCEPT ![p] = "done"]
        /\ UNCHANGED <<now, todos, last, req, cliVars>>

(***************************************************************************)
(* Concurrent requests on tasks.  Each request has its own session: the    *)
(* SELECT of get_todo reads the committed rows and loads the task as an    *)
(* object; the handler sets attributes of the object; flush sends one      *)
(* UPDATE of the row with that primary key, which writes the columns whose *)
(* attribute changed and waits while another open transaction has written  *)
(* the row; get_db_session commits after the handler has returned.         *)
(***************************************************************************)
\* an UPDATE that writes every column of the object as the session holds it
UpdateStatement_whole_row(current, loaded, changed) == changed

\* the row after UPDATE todos SET <changed attributes> WHERE id = <pk>: current
\* is the row as committed, loaded the object as it was read, changed the object
\* as the handler left it
UpdateStatement(current, loaded, changed) ==
    [f \in DOMAIN current |-> IF changed[f] # loaded[f] THEN changed[f] ELSE current[f]]

StartTodoUpdate(p, authorization, todo_id, data) ==
    /\ pc[p] = "idle"
    /\ req' = [req EXCEPT ![p] = [op |-> "update_todo", authorization |-> authorization,
                                  todo_id |-> todo_id, data |-> data]]
    /\ pc' = [pc EXCEPT ![p] = "select"]
    /\ UNCHANGED <<cliVars, authVars, pending, resp>>

StartTodoDelete(p, authorization, todo_id) ==
    /\ pc[p] = "idle"
    /\ req' = [req EXCEPT ![p] = [op |-> "delete_todo", authorization |-> authorization,
                                  todo_id |-> todo_id]]
    /\ pc' = [pc EXCEPT ![p] = "select"]
    /\ UNCHANGED <<cliVars, authVars, pending, resp>>

\* the request of p ends with this response, its session rolled back
EndTodoRequest(p, response) ==
    /\ pc' = [pc EXCEPT ![p] = "done"]
    /\ resp' = [resp EXCEPT ![p] = Some(response)]
    /\ pending' = [pending EXCEPT ![p] = None]
    /\ UNCHANGED <<cliVars, authVars, req>>

\* get_current_user, the schema of the body, then get_todo
SelectTodo(p) ==
    LET auth == get_current_user(req[p].authorization, users, now)
        found == IF auth.ok THEN get_todo(todos, req[p].todo_id, auth.val.id) ELSE auth
    IN  /\ pc[p] = "select"
        /\ IF ~auth.ok THEN EndTodoRequest(p, GateResponse(auth, now))
           ELSE IF req[p].op = "update_todo" /\ ~TodoUpdate_valid(req[p].data)
           THEN EndTodoRequest(p, RequestValidationResponse)
           ELSE IF ~found.ok THEN EndTodoRequest(p, ErrorResponse(found.exc, now))
           ELSE /\ pending' = [pending EXCEPT ![p] = Some(found.val)]
                /\ pc' = [pc EXCEPT ![p] = "flush"]
                /\ UNCHANGED <<cliVars, authVars, req, resp>>

\* the object of p as its handler leaves it before the flush
ChangedTodo(p) ==
    LET loaded == Get(pending[p])
        update_data == TodoUpdate_validate(req[p].data)
        set == [f \in DOMAIN loaded |->
                   IF f \in DOMAIN update_data THEN update_data[f] ELSE loaded[f]]
        tagged == IF "title" \in DOMAIN update_data \/ "description" \in DOMAIN update_data
                  THEN [set EXCEPT !.tags = extract_tags(set.title, set.description)]
                  ELSE set
    IN  IF req[p].op = "delete_todo"
        THEN [loaded EXCEPT !.deleted_at = Some(now), !.updated_at = now]
        ELSE [tagged EXCEPT !.updated_at = now]

\* another open transaction has written the row p is about to write
RowLocked(p) ==
    \E q \in Signups \ {p} : pc[q] = "commit" /\ Get(pending[q]).id = Get(pending[p]).id

\* no open transaction has written a row: a request taken as one step
\* that writes a task waits for this
NoOpenWrite == \A p \in Signups : pc[p] # "commit"

\* await self.session.flush(): the UPDATE, on the row as it is committed by then
FlushTodo(p) ==
    LET loaded == Get(pending[p])
        current == todos[RowOf(todos, loaded.id)]
    IN  /\ pc[p] = "flush"
        /\ ~RowLocked(p)
        /\ IF req[p].op = "update_todo" /\ "title" \in Nulls(req[p].data)
           THEN EndTodoRequest(p, ErrorResponse(OtherException("AttributeError"), now))
           ELSE IF req[p].op = "update_todo"
                   /\ Nulls(req[p].data) \cap {"status", "priority"} # {}
           THEN EndTodoRequest(p, ErrorResponse(OtherException("IntegrityError"), now))
           ELSE /\ pending' = [pending EXCEPT ![p] =
                                  Some(UpdateStatement(current, loaded, ChangedTodo(p)))]
                /\ pc' = [pc EXCEPT ![p] = "commit"]
                /\ UNCHANGED <<cliVars, authVars, req, resp>>

\* session.refresh, the response, then session.commit()
CommitTodo(p) ==
    LET row == Get(pending[p])
    IN  /\ pc[p] = "commit"
        /\ todos' = [todos EXCEPT ![RowOf(todos, row.id)] = row]
        /\ pending' = [pending EXCEPT ![p] = None]
        /\ resp' = [resp EXCEPT ![p] =
               Some(APIResponse(200, IF req[p].op = "delete_todo" THEN None
                                     ELSE Some(TodoResponse(row)), NoCookie, now))]
        /\ pc' = [pc EXCEPT ![p] = "done"]
        /\ UNCHANGED <<now, users, minted, jti_seq, registered, last, req, cliVars>>

(***************************************************************************)
(* cli-todo-app: src/exceptions/errors.py, src/models, src/utils/validators *)
(* (modelled from their unit tests), src/store/todo_store.py and           *)
(* src/services/todo_service.py.  A title and a textual id are sequences   *)
(* of characters; the dict _todos is the sequence of its values in         *)
(* insertion order, each stored under the key of its id.                   *)
(***************************************************************************)
TodoError(kind, message, code, todo_id) ==
    [kind |-> kind, message |-> message, code |-> code, todo_id |-> todo_id]

TodoNotFoundError(todo_id) ==
    TodoError("TodoNotFoundError", "Todo with ID {todo_id} not found", "TODO_NOT_FOUND",
              Some(todo_id))

ValidationError(message) == TodoError("ValidationError", message, "VALIDATION_ERROR", None)

EmptyTitleError == TodoError("EmptyTitleError", "Title is required", "VALIDATION_ERROR", None)

InvalidIdError ==
    TodoError("InvalidIdError", "Invalid ID. ID must be a positive number",
              "VALIDATION_ERROR", None)

\* TodoStatus.INCOMPLETE and TodoStatus.COMPLETE
INCOMPLETE == "incomplete"
COMPLETE == "complete"

\* the dataclass Todo of the CLI
CliTodo(id, title, description, status, created_at) ==
    [id |-> id, title |-> title, description |-> description, status |-> status,
     created_at |-> created_at]

\* the outcome of a call, with the store as the call leaves it
Returned(val, T, next_id) == [ok |-> TRUE, val |-> val, todos |-> T, next_id |-> next_id]
Raised(exc, T, next_id) == [ok |-> FALSE, exc |-> exc, todos |-> T, next_id |-> next_id]

\* str.strip()
RECURSIVE LStrip(_)
LStrip(s) == IF s # <<>> /\ Head(s) = " " THEN LStrip(Tail(s)) ELSE s

RECURSIVE RStrip(_)
RStrip(s) ==
    IF s # <<>> /\ s[Len(s)] = " " THEN RStrip(SubSeq(s, 1, Len(s) - 1)) ELSE s

Strip(s) == RStrip(LStrip(s))

\* validate_title: the stripped title, or EmptyTitleError
validate_title(title) ==
    LET stripped == Strip(title)
    IN  IF stripped = <<>> THEN Raise(EmptyTitleError) ELSE Ok(stripped)

\* an id as a caller gives it: an int, or a text
IntId(n) == [is_int |-> TRUE, n |-> n, text |-> <<>>]
StrId(text) == [is_int |-> FALSE, n |-> 0, text |-> text]

Digits == <<"0", "1", "2", "3", "4", "5", "6", "7", "8", "9">>

IsDigit(c) == \E d \in DOMAIN Digits : Digits[d] = c
DigitVal(c) == (CHOOSE d \in DOMAIN Digits : Digits[d] = c) - 1

\* int(text) for a text of decimal digits
RECURSIVE IntOf(_)
IntOf(text) ==
    IF text = <<>> THEN 0
    ELSE IntOf(SubSeq(text, 1, Len(text) - 1)) * 10 + DigitVal(text[Len(text)])

\* validate_id: the id as a positive int, or InvalidIdError
validate_id(todo_id) ==
    IF todo_id.is_int
    THEN IF todo_id.n >= 1 THEN Ok(todo_id.n) ELSE Raise(InvalidIdError)
    ELSE IF todo_id.text = <<>> \/ \E k \in DOMAIN todo_id.text : ~IsDigit(todo_id.text[k])
    THEN Raise(InvalidIdError)
    ELSE IF IntOf(todo_id.text) >= 1 THEN Ok(IntOf(todo_id.text))
    ELSE Raise(InvalidIdError)

\* the positions of _todos that hold key todo_id
KeyIdx(T, todo_id) == {j \in DOMAIN T : T[j].id = todo_id}

\* self._todos[todo.id] = todo
DictSet(T, todo) ==
    IF KeyIdx(T, todo.id) = {} THEN Append(T, todo)
    ELSE [j \in DOMAIN T |-> IF T[j].id = todo.id THEN todo ELSE T[j]]

\* del self._todos[todo_id]
DictDel(T, todo_id) == SelectIdx(T, DOMAIN T \ KeyIdx(T, todo_id), 1)

\* an add that numbers the new todo by the size of the store
TodoStore_add_by_size(T, next_id, title, description, t) ==
    LET id_value == Len(T) + 1
        todo == CliTodo(id_value, title, description, INCOMPLETE, t)
    IN  Returned(todo, DictSet(T, todo), next_id + 1)

\* TodoStore._generate_id and TodoStore.add
TodoStore_add(T, next_id, title, description, t) ==
    LET id_value == next_id
        todo == CliTodo(id_value, title, description, INCOMPLETE, t)
    IN  Returned(todo, DictSet(T, todo), next_id + 1)

\* TodoStore.get
TodoStore_get(T, next_id, todo_id) ==
    IF KeyIdx(T, todo_id) = {} THEN Raised(TodoNotFoundError(todo_id), T, next_id)
    ELSE Returned(T[CHOOSE j \in KeyIdx(T, todo_id) : TRUE], T, next_id)

\* sorted(todos, key=lambda t: t.id): a stable insertion sort
RECURSIVE InsertById(_, _)
InsertById(sorted, todo) ==
    IF sorted = <<>> THEN <<todo>>
    ELSE IF sorted[Len(sorted)].id <= todo.id THEN Append(sorted, todo)
    ELSE Append(InsertById(SubSeq(sorted, 1, Len(sorted) - 1), todo), sorted[Len(sorted)])

RECURSIVE SortedById(_)
SortedById(list) ==
    IF list = <<>> THEN <<>>
    ELSE InsertById(SortedById(SubSeq(list, 1, Len(list) - 1)), list[Len(list)])

\* get_all without the final sort, newest entry first
TodoStore_get_all_unsorted(T, next_id, status_filter) ==
    LET listed == IF IsNone(status_filter) THEN T
                  ELSE SelectIdx(T, {j \in DOMAIN T : T[j].status = Get(status_filter)}, 1)
    IN  Returned(Reverse(listed), T, next_id)

\* TodoStore.get_all; status_filter is None or Some(status)
TodoStore_get_all(T, next_id, status_filter) ==
    LET listed == IF IsNone(status_filter) THEN T
                  ELSE SelectIdx(T, {j \in DOMAIN T : T[j].status = Get(status_filter)}, 1)
    IN  Returned(SortedById(listed), T, next_id)

\* TodoStore.update; title and description are None or Some(value)
TodoStore_update(T, next_id, todo_id, title, description) ==
    LET found == TodoStore_get(T, next_id, todo_id)
    IN  IF ~found.ok THEN found
        ELSE LET t1 == IF IsNone(title) THEN found.val
                       ELSE [found.val EXCEPT !.title = Get(title)]
                 todo == IF IsNone(description) THEN t1
                         ELSE [t1 EXCEPT !.description = Get(description)]
             IN  Returned(todo, DictSet(T, todo), next_id)

\* a delete that ignores an id that is not stored
TodoStore_delete_lenient(T, next_id, todo_id) == Returned(None, DictDel(T, todo_id), next_id)

\* TodoStore.delete
TodoStore_delete(T, next_id, todo_id) ==
    IF KeyIdx(T, todo_id) = {} THEN Raised(TodoNotFoundError(todo_id), T, next_id)
    ELSE Returned(None, DictDel(T, todo_id), next_id)

\* mark_complete as a toggle
TodoStore_mark_complete_toggle(T, next_id, todo_id) ==
    LET found == TodoStore_get(T, next_id, todo_id)
    IN  IF ~found.ok THEN found
        ELSE LET todo == [found.val EXCEPT
                             !.status = IF @ = COMPLETE THEN INCOMPLETE ELSE COMPLETE]
             IN  Returned(todo, DictSet(T, todo), next_id)

\* TodoStore.mark_complete
TodoStore_mark_complete(T, next_id, todo_id) ==
    LET found == TodoStore_get(T, next_id, todo_id)
    IN  IF ~found.ok THEN found
        ELSE LET todo == [found.val EXCEPT !.status = COMPLETE]
             IN  Returned(todo, DictSet(T, todo), next_id)

\* TodoStore.mark_incomplete
TodoStore_mark_incomplete(T, next_id, todo_id) ==
    LET found == TodoStore_get(T, next_id, todo_id)
    IN  IF ~found.ok THEN found
        ELSE LET todo == [found.val EXCEPT !.status = INCOMPLETE]
             IN  Returned(todo, DictSet(T, todo), next_id)

\* TodoStore.count
TodoStore_count(T, next_id) == Returned(Len(T), T, next_id)

\* the texts "complete" and "incomplete"
StrComplete == <<"c", "o", "m", "p", "l", "e", "t", "e">>
StrIncomplete == <<"i", "n">> \o StrComplete

\* create_todo that takes the id before it validates the title
TodoService_create_todo_id_first(T, next_id, title, description, t) ==
    LET validated_title == validate_title(title)
    IN  IF ~validated_title.ok THEN Raised(validated_title.exc, T, next_id + 1)
        ELSE TodoStore_add(T, next_id, validated_title.val, description, t)

\* TodoService.create_todo
TodoService_create_todo(T, next_id, title, description, t) ==
    LET validated_title == validate_title(title)
    IN  IF ~validated_title.ok THEN Raised(validated_title.exc, T, next_id)
        ELSE TodoStore_add(T, next_id, validated_title.val, description, t)

\* TodoService.get_todo
TodoService_get_todo(T, next_id, todo_id) ==
    LET validated_id == validate_id(todo_id)
    IN  IF ~validated_id.ok THEN Raised(validated_id.exc, T, next_id)
        ELSE TodoStore_get(T, next_id, validated_id.val)

\* get_all_todos that compares the filter text as it was typed
TodoService_get_all_todos_exact(T, next_id, status_filter) ==
    LET filter_status ==
            IF IsNone(status_filter) THEN None
            ELSE IF Get(status_filter) = StrComplete THEN Some(COMPLETE)
            ELSE IF Get(status_filter) = StrIncomplete THEN Some(INCOMPLETE)
            ELSE None
    IN  TodoStore_get_all(T, next_id, filter_status)

\* TodoService.get_all_todos; status_filter is None or Some(text)
TodoService_get_all_todos(T, next_id, status_filter) ==
    LET filter_status ==
            IF IsNone(status_filter) THEN None
            ELSE IF Lower(Get(status_filter)) = StrComplete THEN Some(COMPLETE)
            ELSE IF Lower(Get(status_filter)) = StrIncomplete THEN Some(INCOMPLETE)
            ELSE None
    IN  TodoStore_get_all(T, next_id, filter_status)

\* update_todo that stores the title as it was typed
TodoService_update_todo_unstripped(T, next_id, todo_id, title, description) ==
    IF IsNone(title) /\ IsNone(description)
    THEN Raised(ValidationError("Specify --title or --description to update"), T, next_id)
    ELSE LET validated_id == validate_id(todo_id)
             validated_title == IF IsNone(title) THEN Ok(None)
                                ELSE validate_title(Get(title))
         IN  IF ~validated_id.ok THEN Raised(validated_id.exc, T, next_id)
             ELSE IF ~validated_title.ok THEN Raised(validated_title.exc, T, next_id)
             ELSE TodoStore_update(T, next_id, validated_id.val, title, description)

\* TodoService.update_todo
TodoService_update_todo(T, next_id, todo_id, title, description) ==
    IF IsNone(title) /\ IsNone(description)
    THEN Raised(ValidationError("Specify --title or --description to update"), T, next_id)
    ELSE LET validated_id == validate_id(todo_id)
             validated_title == IF IsNone(title) THEN Ok(None)
                                ELSE validate_title(Get(title))
         IN  IF ~validated_id.ok THEN Raised(validated_id.exc, T, next_id)
             ELSE IF ~validated_title.ok THEN Raised(validated_title.exc, T, next_id)
             ELSE TodoStore_update(T, next_id, validated_id.val,
                                   IF IsNone(title) THEN None
                                   ELSE Some(validated_title.val),
                                   description)

\* TodoService.delete_todo
TodoService_delete_todo(T, next_id, todo_id) ==
    LET validated_id == validate_id(todo_id)
    IN  IF ~validated_id.ok THEN Raised(validated_id.exc, T, next_id)
        ELSE TodoStore_delete(T, next_id, validated_id.val)

\* TodoService.complete_todo
TodoService_complete_todo(T, next_id, todo_id) ==
    LET validated_id == validate_id(todo_id)
    IN  IF ~validated_id.ok THEN Raised(validated_id.exc, T, next_id)
        ELSE TodoStore_mark_complete(T, next_id, validated_id.val)

\* TodoService.incomplete_todo
TodoService_incomplete_todo(T, next_id, todo_id) ==
    LET validated_id == validate_id(todo_id)
    IN  IF ~validated_id.ok THEN Raised(validated_id.exc, T, next_id)
        ELSE TodoStore_mark_incomplete(T, next_id, validated_id.val)

NoCall == [op |-> "none"]

\* a call of the CLI, made when the caller has taken the outcome of the one
\* before: the store becomes what the call leaves, out its outcome
Call(layer, op, args, r) ==
    /\ out = NoCall
    /\ _todos' = r.todos
    /\ _next_id' = r.next_id
    /\ out' = [layer |-> layer, op |-> op, args |-> args, ok |-> r.ok,
               res |-> IF r.ok THEN r.val ELSE r.exc]
    /\ UNCHANGED <<users, todos, minted, jti_seq, registered, last, raceVars>>

\* calls on a TodoStore
add(title, description) ==
    /\ _next_id <= MaxAdds
    /\ Call("store", "add", [title |-> title, description |-> description],
            TodoStore_add(_todos, _next_id, title, description, now))
    /\ UNCHANGED now

get(todo_id) ==
    /\ Call("store", "get", [todo_id |-> todo_id], TodoStore_get(_todos, _next_id, todo_id))
    /\ UNCHANGED now

get_all(status_filter) ==
    /\ Call("store", "get_all", [status_filter |-> status_filter],
            TodoStore_get_all(_todos, _next_id, status_filter))
    /\ UNCHANGED now

update(todo_id, title, description) ==
    /\ Call("store", "update",
            [todo_id |-> todo_id, title |-> title, description |-> description],
            TodoStore_update(_todos, _next_id, todo_id, title, description))
    /\ UNCHANGED now

delete(todo_id) ==
    /\ Call("store", "delete", [todo_id |-> todo_id],
            TodoStore_delete(_todos, _next_id, todo_id))
    /\ UNCHANGED now

mark_complete(todo_id) ==
    /\ Call("store", "mark_complete", [todo_id |-> todo_id],
            TodoStore_mark_complete(_todos, _next_id, todo_id))
    /\ UNCHANGED now

mark_incomplete(todo_id) ==
    /\ Call("store", "mark_incomplete", [todo_id |-> todo_id],
            TodoStore_mark_incomplete(_todos, _next_id, todo_id))
    /\ UNCHANGED now

count ==
    /\ Call("store", "count", <<>>, TodoStore_count(_todos, _next_id))
    /\ UNCHANGED now

\* calls on a TodoService
service_create_todo(title, description) ==
    /\ _next_id <= MaxAdds
    /\ Call("service", "create_todo", [title |-> title, description |-> description],
            TodoService_create_todo(_todos, _next_id, title, description, now))
    /\ UNCHANGED now

service_get_todo(todo_id) ==
    /\ Call("service", "get_todo", [todo_id |-> todo_id],
            TodoService_get_todo(_todos, _next_id, todo_id))
    /\ UNCHANGED now

service_get_all_todos(status_filter) ==
    /\ Call("service", "get_all_todos", [status_filter |-> status_filter],
            TodoService_get_all_todos(_todos, _next_id, status_filter))
    /\ UNCHANGED now

service_update_todo(todo_id, title, description) ==
    /\ Call("service", "update_todo",
            [todo_id |-> todo_id, title |-> title, description |-> description],
            TodoService_update_todo(_todos, _next_id, todo_id, title, description))
    /\ UNCHANGED now

service_delete_todo(todo_id) ==
    /\ Call("service", "delete_todo", [todo_id |-> todo_id],
            TodoService_delete_todo(_todos, _next_id, todo_id))
    /\ UNCHANGED now

service_complete_todo(todo_id) ==
    /\ Call("service", "complete_todo", [todo_id |-> todo_id],
            TodoService_complete_todo(_todos, _next_id, todo_id))
    /\ UNCHANGED now

service_incomplete_todo(todo_id) ==
    /\ Call("service", "incomplete_todo", [todo_id |-> todo_id],
            TodoService_incomplete_todo(_todos, _next_id, todo_id))
    /\ UNCHANGED now

\* the caller takes the outcome of the call
Return ==
    /\ out # NoCall
    /\ out' = NoCall
    /\ UNCHANGED <<now, users, todos, minted, jti_seq, registered, last, raceVars,
                   _todos, _next_id>>

\* datetime.now(UTC) advances between two calls
CliTick ==
    /\ out = NoCall
    /\ now < MaxCliTicks
    /\ now' = now + 1
    /\ UNCHANGED <<users, todos, minted, jti_seq, registered, last, raceVars, cliVars>>

(***************************************************************************)
(* Initial state and specifications                                        *)
(***************************************************************************)
Init ==
    /\ now = 0
    /\ users = <<>>
    /\ todos = <<>>
    /\ minted = {}
    /\ jti_seq = 0
    /\ registered = {}
    /\ last = NoRequest
    /\ pc = [p \in Signups |-> "idle"]
    /\ req = [p \in Signups |-> None]
    /\ pending = [p \in Signups |-> None]
    /\ resp = [p \in Signups |-> None]
    /\ _todos = <<>>
    /\ _next_id = 1
    /\ out = NoCall

\* what a client can put in an Authorization header or a refresh_token cookie:
\* nothing, something that is no JWS, a token the server signed, or the
\* payload of such a token signed with another key
Forged == {jwt_encode(tok.payload, OTHER_KEY) : tok \in {x \in issued : x.payload.iat = 0}}
Presentable == {None} \cup {Some(tok) : tok \in issued \cup Forged \cup {Garbage}}

\* the access tokens the server signed
AccessTokens == {Some(tok) : tok \in {x \in issued : x.payload.type = "access"}}

TodoIds == 1..(MaxTodos + 1)

CreateBodies ==
    {TodoCreate(<<"Test">>, None, "pending", "medium", None),
     [title |-> <<"Buy", "milk!">>, description |-> Some(<<"2", "litres">>),
      status |-> "in_progress", priority |-> "high", due_date |-> None,
      user_id |-> 1]}

UpdateBodies ==
    {[status |-> "completed"],
     [title |-> <<"Renamed", "The", "report">>, priority |-> "low", user_id |-> 1]}

ListParams ==
    {[page |-> 1, per_page |-> 20, status |-> None, priority |-> None,
      sort_order |-> "desc"],
     [page |-> 1, per_page |-> 1, status |-> Some("pending"), priority |-> None,
      sort_order |-> "asc"]}

\* two accounts, signed up with distinct emails and usernames
Alice == [email |-> <<"a">>, username |-> "alice", password |-> "pw1"]
Bob == [email |-> <<"b">>, username |-> "bob", password |-> "pw2"]

\* the todo endpoints, used by two signed-up accounts
Next ==
    \/ \E a \in {Alice, Bob} : signup(a.email, a.username, a.password)
    \/ \E h \in AccessTokens, data \in CreateBodies :
          Len(todos) < MaxTodos /\ create_todo_endpoint(h, data)
    \/ \E h \in AccessTokens, id \in TodoIds : get_todo_endpoint(h, id)
    \/ \E h \in AccessTokens, p \in ListParams : list_todos_endpoint(h, p)
    \/ \E h \in AccessTokens, id \in TodoIds, data \in UpdateBodies :
          update_todo_endpoint(h, id, data)
    \/ \E h \in AccessTokens, id \in TodoIds : delete_todo_endpoint(h, id)
    \/ Deliver

Spec == Init /\ [][Next]_vars

\* signup and login with any email, username and password
NextAuth ==
    \/ \E e \in Emails, u \in Usernames, pw \in Passwords : signup(e, u, pw)
    \/ \E e \in Emails, pw \in Passwords : login(e, pw)
    \/ Deliver

SpecAuth == Init /\ [][NextAuth]_vars

\* one account, every identity-scoped endpoint and the refresh endpoint with
\* whatever a client can present, the clock, and the account's soft deletion
GateCreate == TodoCreate(<<"Test">>, None, "pending", "medium", None)
GateUpdate == [status |-> "completed"]
GateList == [page |-> 1, per_page |-> 20, status |-> None, priority |-> None,
             sort_order |-> "desc"]

NextGate ==
    \/ signup(Alice.email, Alice.username, Alice.password)
    \/ jti_seq < GateMaxIssues /\ login(Alice.email, Alice.password)
    \/ \E c \in Presentable : jti_seq < GateMaxIssues /\ refresh_token(c)
    \/ \E h \in Presentable : logout(h)
    \/ \E h \in Presentable : get_current_user_profile(h)
    \/ \E h \in Presentable : update_current_user_profile(h, Some(Bob.username))
    \/ \E h \in Presentable : list_todos_endpoint(h, GateList)
    \/ \E h \in Presentable :
          Len(todos) < GateMaxTodos /\ create_todo_endpoint(h, GateCreate)
    \/ \E h \in Presentable : get_todo_endpoint(h, 1)
    \/ \E h \in Presentable : update_todo_endpoint(h, 1, GateUpdate)
    \/ \E h \in Presentable : delete_todo_endpoint(h, 1)
    \/ \E d \in TickSteps : Tick(d)
    \/ \E id \in 1..MaxUsers : SoftDeleteUser(id)
    \/ Deliver

SpecGate == Init /\ [][NextGate]_vars

\* one account that signs up and then only refreshes, with any token it holds
\* or no cookie, while the clock runs and the account may be soft-deleted
NextRotate ==
    \/ signup(Alice.email, Alice.username, Alice.password)
    \/ \E c \in {None} \cup {Some(tok) : tok \in issued} : refresh_token(c)
    \/ \E d \in TickSteps : Tick(d)
    \/ \E id \in 1..MaxUsers : SoftDeleteUser(id)
    \/ Deliver

SpecRotate == Init /\ [][NextRotate]_vars

\* one account that fills its list up to MaxRows tasks, soft-deletes among
\* the first of them, and lists with several pages and page sizes
PageParams ==
    {[page |-> pg, per_page |-> pp, status |-> None, priority |-> None,
      sort_order |-> so] :
        pg \in {1, 2, 5, 6}, pp \in {1, 10, 100}, so \in {"asc", "desc"}}

NextPage ==
    \/ signup(Alice.email, Alice.username, Alice.password)
    \/ \E h \in AccessTokens : create_todo_endpoint(h, GateCreate)
    \/ \E h \in AccessTokens, id \in {1, 2} : delete_todo_endpoint(h, id)
    \/ \E h \in AccessTokens, p \in PageParams : list_todos_endpoint(h, p)
    \/ Deliver

SpecPage == Init /\ [][NextPage]_vars

\* one account that creates and edits its tasks while time passes
EditBodies ==
    UpdateBodies \cup {[description |-> None], [due_date |-> Some(1), status |-> "pending"]}

NextEdit ==
    \/ signup(Alice.email, Alice.username, Alice.password)
    \/ \E h \in AccessTokens, data \in CreateBodies :
          Len(todos) < MaxTodos /\ create_todo_endpoint(h, data)
    \/ \E h \in AccessTokens, id \in TodoIds, data \in EditBodies :
          update_todo_endpoint(h, id, data)
    \/ Tick(1)
    \/ Deliver

SpecEdit == Init /\ [][NextEdit]_vars

\* one account that sends well-formed and ill-formed task bodies
FormCreates ==
    {[title |-> <<"Test">>],
     [title |-> <<"w255">>, status |-> "In-Progress", priority |-> "HIGH"],
     [title |-> <<"w256">>],
     [title |-> <<>>],
     [title |-> <<"Test">>, status |-> "done"],
     [title |-> <<"Test">>, null |-> {"priority"}],
     [status |-> "pending"]}

FormUpdates ==
    {[title |-> <<"Buy", "milk!">>, status |-> " completed "],
     [title |-> <<"w256">>],
     [title |-> <<>>, priority |-> "low"],
     [priority |-> "urgent"],
     [null |-> {"title"}],
     [null |-> {"status"}],
     [null |-> {"priority"}, description |-> Some(<<"2", "litres">>)],
     [null |-> {"title", "status", "priority"}, description |-> None]}

NextForm ==
    \/ signup(Alice.email, Alice.username, Alice.password)
    \/ \E h \in AccessTokens \cup {None}, data \in FormCreates :
          Len(todos) < MaxTodos /\ create_todo_endpoint(h, data)
    \/ \E h \in AccessTokens, id \in TodoIds, data \in FormUpdates :
          update_todo_endpoint(h, id, data)
    \/ Deliver

SpecForm == Init /\ [][NextForm]_vars

\* one account whose tasks' words match few or many tag categories
TagCreates ==
    {[title |-> <<"Test">>],
     [title |-> <<"report", "budget", "gym", "Test", "Buy">>,
      description |-> Some(<<"mail">>)],
     [title |-> <<"Buy", "milk!">>, description |-> Some(<<"Renamed", "report", "litres">>)]}

TagUpdates ==
    {[status |-> "completed"],
     [priority |-> "high", due_date |-> Some(1)],
     [title |-> <<"The", "--">>],
     [title |-> <<"litres", "mail", "milk!", "Renamed", "budget">>],
     [description |-> None],
     [description |-> Some(<<"gym", "Test">>), status |-> "pending"],
     [null |-> {"title"}, description |-> None]}

NextTags ==
    \/ signup(Alice.email, Alice.username, Alice.password)
    \/ \E h \in AccessTokens, data \in TagCreates :
          Len(todos) < MaxTodos /\ create_todo_endpoint(h, data)
    \/ \E h \in AccessTokens, id \in TodoIds, data \in TagUpdates :
          update_todo_endpoint(h, id, data)
    \/ Deliver

SpecTags == Init /\ [][NextTags]_vars

\* two accounts that sign up and rename themselves, one request at a time,
\* while an operator may soft-delete either
ProfileNames == {None} \cup {Some(n) : n \in Usernames \cup {"carol"}}

NextProfile ==
    \/ \E e \in {Alice.email, Bob.email}, u \in Usernames : signup(e, u, Alice.password)
    \/ \E h \in AccessTokens, u \in ProfileNames : update_current_user_profile(h, u)
    \/ \E id \in 1..MaxUsers : SoftDeleteUser(id)
    \/ Deliver

SpecProfile == Init /\ [][NextProfile]_vars

\* two accounts and every endpoint, each with the tokens the server signed,
\* while an operator may soft-delete either account; the clock moves once,
\* after both have signed up
NextFrame ==
    \/ \E a \in {Alice, Bob} : signup(a.email, a.username, a.password)
    \/ \E a \in {Alice, Bob} : jti_seq < MaxIssues /\ login(a.email, a.password)
    \/ \E c \in {Some(tok) : tok \in issued} : jti_seq < MaxIssues /\ refresh_token(c)
    \/ \E h \in AccessTokens : logout(h)
    \/ \E h \in AccessTokens : get_current_user_profile(h)
    \/ \E h \in AccessTokens, u \in ProfileNames : update_current_user_profile(h, u)
    \/ \E h \in AccessTokens : list_todos_endpoint(h, GateList)
    \/ \E h \in AccessTokens :
          Len(todos) < GateMaxTodos /\ create_todo_endpoint(h, GateCreate)
    \/ \E h \in AccessTokens : get_todo_endpoint(h, 1)
    \/ \E h \in AccessTokens : update_todo_endpoint(h, 1, GateUpdate)
    \/ \E h \in AccessTokens : delete_todo_endpoint(h, 1)
    \/ now = 0 /\ Len(users) = MaxUsers /\ Tick(1)
    \/ \E id \in 1..MaxUsers : SoftDeleteUser(id)
    \/ Deliver

SpecFrame == Init /\ [][NextFrame]_vars

\* two accounts whose requests end in every kind of error: conflicts, tasks
\* not found, tokens refused, wrong passwords, bodies with null, and the
\* database failing after a flush
AtomicUpdates == {[status |-> "completed"], [null |-> {"title"}, status |-> "completed"],
                  [null |-> {"priority"}, description |-> Some(<<"2", "litres">>)]}

NextAtomic ==
    \/ \E e \in {Alice.email, Bob.email}, u \in Usernames, fault \in BOOLEAN :
          signup_request(e, u, Alice.password, fault)
    \/ \E pw \in Passwords : jti_seq < MaxIssues /\ login(Alice.email, pw)
    \/ \E h \in AccessTokens \cup {None, Some(Garbage)}, u \in ProfileNames :
          update_current_user_profile(h, u)
    \/ \E h \in AccessTokens \cup {None} :
          Len(todos) < GateMaxTodos /\ create_todo_endpoint(h, GateCreate)
    \/ \E h \in AccessTokens \cup {None}, id \in 1..(GateMaxTodos + 1),
          data \in AtomicUpdates, fault \in BOOLEAN :
          update_todo_request(h, id, data, fault)
    \/ \E h \in AccessTokens \cup {None}, id \in 1..(GateMaxTodos + 1) :
          delete_todo_endpoint(h, id)
    \/ \E id \in 1..MaxUsers : SoftDeleteUser(id)
    \/ Deliver

SpecAtomic == Init /\ [][NextAtomic]_vars

\* one account with tasks; two requests that update or delete a task run
\* statement by statement next to each other, while the other endpoints
\* answer one request at a time and the clock moves
SoftUpdates == {[status |-> "completed"], [title |-> <<"Buy", "milk!">>, description |-> None]}

NextSoft ==
    \/ signup(Alice.email, Alice.username, Alice.password)
    \/ \E h \in AccessTokens :
          Len(todos) < MaxTodos /\ create_todo_endpoint(h, GateCreate)
    \/ \E h \in AccessTokens, id \in 1..MaxTodos : get_todo_endpoint(h, id)
    \/ \E h \in AccessTokens : list_todos_endpoint(h, GateList)
    \/ \E h \in AccessTokens, id \in 1..MaxTodos :
          NoOpenWrite /\ delete_todo_endpoint(h, id)
    \/ \E p \in Signups, h \in AccessTokens, id \in 1..MaxTodos, data \in SoftUpdates :
          StartTodoUpdate(p, h, id, data)
    \/ \E p \in Signups, h \in AccessTokens, id \in 1..MaxTodos :
          StartTodoDelete(p, h, id)
    \/ \E p \in Signups : SelectTodo(p)
    \/ \E p \in Signups : FlushTodo(p)
    \/ \E p \in Signups : CommitTodo(p)
    \/ now = 0 /\ Tick(1)
    \/ Deliver

SpecSoft == Init /\ [][NextSoft]_vars

\* calls on one TodoStore
StoreTitles == {<<"a">>, <<"b">>}
StoreIds == 0..(MaxAdds + 1)
StatusFilters == {None, Some(COMPLETE), Some(INCOMPLETE)}

NextStore ==
    \/ \E title \in StoreTitles : add(title, "")
    \/ \E id \in StoreIds : get(id)
    \/ \E f \in StatusFilters : get_all(f)
    \/ \E id \in StoreIds, title \in {None, Some(<<"c">>)}, d \in {None, Some("d")} :
          update(id, title, d)
    \/ \E id \in StoreIds : delete(id)
    \/ \E id \in StoreIds : mark_complete(id)
    \/ \E id \in StoreIds : mark_incomplete(id)
    \/ count
    \/ Return
    \/ CliTick

SpecStore == Init /\ [][NextStore]_vars

\* calls on one TodoService over its own store
ServiceTitles == {<<>>, <<" ">>, <<" ", "a", " ">>, <<"b">>}
ServiceIds ==
    {IntId(n) : n \in -1..(MaxAdds + 1)} \cup
    {StrId(text) : text \in {<<>>, <<"1">>, <<"0", "2">>, <<"1", ".", "5">>, <<"a">>}}
ServiceFilters ==
    {None, Some(StrComplete), Some(StrIncomplete),
     Some(<<"C", "O", "M", "P", "L", "E", "T", "E">>),
     Some(<<"I", "n", "C", "o", "m", "p", "l", "e", "t", "e">>),
     Some(<<"p", "e", "n", "d", "i", "n", "g">>)}

NextService ==
    \/ \E title \in ServiceTitles : service_create_todo(title, "")
    \/ \E id \in ServiceIds : service_get_todo(id)
    \/ \E f \in ServiceFilters : service_get_all_todos(f)
    \/ \E id \in ServiceIds, title \in {None} \cup {Some(x) : x \in ServiceTitles},
          d \in {None, Some("d")} : service_update_todo(id, title, d)
    \/ \E id \in ServiceIds : service_delete_todo(id)
    \/ \E id \in ServiceIds : service_complete_todo(id)
    \/ \E id \in ServiceIds : service_incomplete_todo(id)
    \/ Return
    \/ CliTick

SpecService == Init /\ [][NextService]_vars

\* concurrent signups
NextRace ==
    \E p \in Signups :
        \/ \E e \in Emails, u \in Usernames, pw \in Passwords : StartSignup(p, e, u, pw)
        \/ CheckEmail(p)
        \/ CheckUsername(p)
        \/ Flush(p)
        \/ Commit(p)

SpecRace == Init /\ [][NextRace]_vars

(***************************************************************************)
(* Properties                                                              *)
(***************************************************************************)
TodoOps == {"get_todo", "update_todo", "delete_todo"}

\* the caller the gate resolves for the request of `r`, in the current tables
CallerOf(r) == get_current_user(r.authorization, users, now)

NotFoundResponse ==
    [status |-> 404,
     body |-> [success |-> FALSE, data |-> None, error |-> Some("Todo not found"),
               timestamp |-> now],
     cookie |-> NoCookie]

\* C1: a get, update or delete a user issues on the id of a task another user
\* created is answered 404 with no data, and leaves the task table as it was
C1_Step ==
    \A i \in DOMAIN todos :
        (/\ Idle
         /\ last'.op \in TodoOps
         /\ last'.args.todo_id = todos[i].id
         /\ CallerOf(last').ok
         /\ CallerOf(last').val.id # todos[i].user_id)
        => /\ last'.resp.status = 404
           /\ last'.resp.body.data = None
           /\ todos' = todos

C1_OwnershipIsolation == [][C1_Step]_vars

C1_Witness ==
    /\ last.op = "update_todo"
    /\ last.resp.status = 404
    /\ CallerOf(last).ok
    /\ \E i \in DOMAIN todos :
          /\ todos[i].id = last.args.todo_id
          /\ todos[i].user_id # CallerOf(last).val.id
          /\ IsNone(todos[i].deleted_at)

\* C2: for an authenticated user, get, update and delete answer with one and
\* the same response when the id is of no task, of a task of another user, or
\* of a task of the user that is soft-deleted
C2_Step ==
    (/\ Idle
     /\ last'.op \in TodoOps
     /\ CallerOf(last').ok
     /\ \/ \A i \in DOMAIN todos : todos[i].id # last'.args.todo_id
        \/ \E i \in DOMAIN todos : /\ todos[i].id = last'.args.todo_id
                                   /\ todos[i].user_id # CallerOf(last').val.id
        \/ \E i \in DOMAIN todos : /\ todos[i].id = last'.args.todo_id
                                   /\ todos[i].user_id = CallerOf(last').val.id
                                   /\ ~IsNone(todos[i].deleted_at))
    => last'.resp = NotFoundResponse

C2_NotFoundIndistinguishable == [][C2_Step]_vars

C2_Witness ==
    /\ last.op = "get_todo"
    /\ CallerOf(last).ok
    /\ last.resp = NotFoundResponse
    /\ \A i \in DOMAIN todos : todos[i].id # last.args.todo_id
    /\ \E i \in DOMAIN todos : todos[i].user_id # CallerOf(last).val.id
    /\ \E i \in DOMAIN todos : /\ todos[i].user_id = CallerOf(last).val.id
                               /\ ~IsNone(todos[i].deleted_at)

\* C3: a successful delete keeps the row and sets its deleted_at; a row with
\* deleted_at set never changes again, every later get, update and delete on
\* it is answered 404 "Todo not found", and no list contains it
C3_Step ==
    /\ \A i \in DOMAIN todos :
          /\ i \in DOMAIN todos'
          /\ todos'[i].id = todos[i].id
          /\ ~IsNone(todos[i].deleted_at) => todos'[i] = todos[i]
    /\ (last'.op = "delete_todo" /\ Idle /\ last'.resp.status = 200)
       => \E i \in DOMAIN todos :
             /\ todos[i].id = last'.args.todo_id
             /\ IsNone(todos[i].deleted_at)
             /\ todos'[i].deleted_at = Some(now)
    /\ \A i \in DOMAIN todos :
          (/\ Idle
           /\ last'.op \in TodoOps
           /\ last'.args.todo_id = todos[i].id
           /\ ~IsNone(todos[i].deleted_at))
          => last'.resp = NotFoundResponse
    /\ (last'.op = "list_todos" /\ Idle /\ last'.resp.status = 200)
       => \A k \in DOMAIN last'.resp.body.data[1].items :
             \A i \in DOMAIN todos :
                todos[i].id = last'.resp.body.data[1].items[k].id
                => IsNone(todos[i].deleted_at)

C3_SoftDelete == [][C3_Step]_vars

C3_Witness ==
    /\ last.op = "delete_todo"
    /\ last.resp = NotFoundResponse
    /\ CallerOf(last).ok
    /\ \E i \in DOMAIN todos :
          /\ todos[i].id = last.args.todo_id
          /\ todos[i].user_id = CallerOf(last).val.id
          /\ ~IsNone(todos[i].deleted_at)

IdentityOps ==
    {"logout", "get_profile", "update_profile",
     "list_todos", "create_todo", "get_todo", "update_todo", "delete_todo"}

\* the subject of a token is the id of a users row that is not soft-deleted
SubjectActive(tok) ==
    \E i \in DOMAIN users :
        StrOfUUID(users[i].id) = tok.payload.sub /\ IsNone(users[i].deleted_at)

\* the Authorization header h carries no usable access token: none at all,
\* no JWS, another key's signature, an exp claim in a second already past, or
\* a subject that is no active user
BadCredential(h) ==
    \/ IsNone(h)
    \/ Get(h).fmt # "jws"
    \/ Get(h).sig # JWT_SECRET_KEY
    \/ Get(h).payload.exp < timegm(now)
    \/ ~SubjectActive(Get(h))

\* C4: a request to an identity-scoped endpoint whose bearer token is missing,
\* malformed, badly signed, expired, or names no active user is answered 401
\* and leaves the users and todos tables (and the set of tokens) as they were
C4_Step ==
    (Idle /\ last'.op \in IdentityOps /\ BadCredential(last'.authorization))
    => /\ last'.resp.status = 401
       /\ last'.resp.cookie = NoCookie
       /\ users' = users
       /\ todos' = todos
       /\ minted' = minted

C4_AuthorizationGate == [][C4_Step]_vars

\* an unexpired access token of a soft-deleted user is turned away from a
\* task that user owns
C4_Witness ==
    /\ last.op = "delete_todo"
    /\ last.resp.status = 401
    /\ ~IsNone(last.authorization)
    /\ Get(last.authorization) \in issued
    /\ Get(last.authorization).payload.type = "access"
    /\ Get(last.authorization).payload.exp >= timegm(now)
    /\ ~SubjectActive(Get(last.authorization))
    /\ \E i \in DOMAIN todos :
          /\ todos[i].id = last.args.todo_id
          /\ StrOfUUID(todos[i].user_id) = Get(last.authorization).payload.sub
          /\ IsNone(todos[i].deleted_at)

OtherType(token_type) == IF token_type = "access" THEN "refresh" ELSE "access"

TypeError(token_type) ==
    Raise(TokenError(IF token_type = "access"
                     THEN "Invalid token type. Expected access"
                     ELSE "Invalid token type. Expected refresh"))

\* C5 (the tokens): a token just created, and every signed token whose exp
\* has not passed, fails verify_token for the other type with the type error
C5_Tokens ==
    /\ \A id \in 1..MaxUsers :
          /\ verify_token(create_access_token(id, now), "refresh", now)
                = TypeError("refresh")
          /\ verify_token(create_refresh_token(id, now, jti_seq + 1), "access", now)
                = TypeError("access")
    /\ \A tok \in issued :
          LET r == verify_token(tok, OtherType(tok.payload.type), now)
          IN  /\ ~r.ok
              /\ tok.payload.exp >= timegm(now)
                 => r = TypeError(OtherType(tok.payload.type))

\* C5 (the endpoints): a refresh token as bearer credential is answered 401
\* and changes nothing; an access token in the refresh cookie is answered 401
\* with no token in the body, no cookie, and no token signed
C5_Step ==
    /\ (/\ Idle
        /\ last'.op \in IdentityOps
        /\ ~IsNone(last'.authorization)
        /\ Get(last'.authorization) \in issued
        /\ Get(last'.authorization).payload.type = "refresh")
       => /\ last'.resp.status = 401
          /\ last'.resp.body.data = None
          /\ users' = users /\ todos' = todos /\ minted' = minted
    /\ (/\ Idle
        /\ last'.op = "refresh"
        /\ ~IsNone(last'.args.refresh_token)
        /\ Get(last'.args.refresh_token) \in issued
        /\ Get(last'.args.refresh_token).payload.type = "access")
       => /\ last'.resp.status = 401
          /\ last'.resp.body.data = None
          /\ last'.resp.cookie = NoCookie
          /\ minted' = minted

\* C5: verify_token never accepts a token as the other type, so a refresh
\* token never authorizes a request and an access token never refreshes
C5_TokenTypeSeparation == []C5_Tokens /\ [][C5_Step]_vars

C5_Witness ==
    /\ last.op = "refresh"
    /\ ~IsNone(last.args.refresh_token)
    /\ Get(last.args.refresh_token) \in issued
    /\ Get(last.args.refresh_token).payload.type = "access"
    /\ Get(last.args.refresh_token).payload.exp >= timegm(now)
    /\ SubjectActive(Get(last.args.refresh_token))
    /\ last.resp.status = 401
    /\ last.resp.body.error = Some("Invalid token type. Expected refresh")

InvalidCredentialsResponse ==
    [status |-> 401,
     body |-> [success |-> FALSE, data |-> None,
               error |-> Some("Invalid credentials"), timestamp |-> now],
     cookie |-> NoCookie]

\* no active account has this email, whatever the case of its letters
UnknownEmail(email) ==
    \A i \in DOMAIN users :
        Lower(users[i].email) # Lower(email) \/ ~IsNone(users[i].deleted_at)

\* an account was registered with this email and another password
WrongPassword(email, password) ==
    \E r \in registered : Lower(r.email) = Lower(email) /\ r.password # password

\* C6: a login with an unknown email and a login with a known email and a
\* wrong password get one and the same response, 401 "Invalid credentials"
\* with no token and no cookie, and no token is signed
C6_Step ==
    (/\ Idle
     /\ last'.op = "login"
     /\ \/ UnknownEmail(last'.args.email)
        \/ WrongPassword(last'.args.email, last'.args.password))
    => /\ last'.resp = InvalidCredentialsResponse
       /\ minted' = minted
       /\ users' = users

C6_LoginEnumerationResistance == [][C6_Step]_vars

C6_Witness ==
    /\ last.op = "login"
    /\ ~UnknownEmail(last.args.email)
    /\ WrongPassword(last.args.email, last.args.password)
    /\ last.resp = InvalidCredentialsResponse
    /\ \E e \in Emails : UnknownEmail(e)

\* the tokens of a result of register_user or authenticate_user name user id
TokensName(r, id) ==
    /\ get_user_id_from_token(r.token_data.access_token, "access", now) = Ok(id)
    /\ get_user_id_from_token(r.refresh_token, "refresh", now) = Ok(id)

\* C7: once an account is registered, a login with its email in any letter
\* case and its password succeeds, and both tokens carry the account's id
C7_RegisterThenLogin ==
    /\ \A r \in registered : \A e \in Emails :
          Lower(e) = Lower(r.email)
          => LET a == authenticate_user(users, e, r.password, now, jti_seq + 1)
             IN  a.ok /\ a.user.id = r.id /\ TokensName(a, r.id)
    /\ \A r \in registered :
          (/\ last.op = "login"
           /\ Lower(last.args.email) = Lower(r.email)
           /\ last.args.password = r.password)
          => /\ last.resp.status = 200
             /\ get_user_id_from_token(Get(last.resp.body.data).access_token,
                                        "access", now) = Ok(r.id)
             /\ last.resp.cookie.op = "set"
             /\ get_user_id_from_token(last.resp.cookie.value, "refresh", now)
                   = Ok(r.id)

C7_Witness ==
    /\ last.op = "login"
    /\ last.resp.status = 200
    /\ \E r \in registered :
          /\ Lower(last.args.email) = Lower(r.email)
          /\ last.args.email # r.email
          /\ last.args.password = r.password

\* no two users rows share an email up to letter case, or a username
C8_Unique ==
    \A i, j \in DOMAIN users :
        i # j => /\ Lower(users[i].email) # Lower(users[j].email)
                 /\ users[i].username # users[j].username

\* a signup with the email (up to letter case) of an active account is
\* answered 409 "Email already registered", one with a fresh email and the
\* username of an active account 409 "Username already taken"; neither
\* creates a user
C8_Step ==
    (Idle /\ last'.op = "signup")
    => LET email_taken == ~UnknownEmail(last'.args.email)
           username_taken ==
               \E i \in DOMAIN users : /\ users[i].username = last'.args.username
                                        /\ IsNone(users[i].deleted_at)
       IN  /\ email_taken
              => /\ last'.resp.status = 409
                 /\ last'.resp.body.error = Some("Email already registered")
                 /\ users' = users
           /\ (~email_taken /\ username_taken)
              => /\ last'.resp.status = 409
                 /\ last'.resp.body.error = Some("Username already taken")
                 /\ users' = users
           /\ (~email_taken /\ ~username_taken)
              => /\ last'.resp.status = 201
                 /\ Len(users') = Len(users) + 1

\* C8: registration keeps emails (case-insensitively) and usernames unique
C8_RegistrationUniqueness == []C8_Unique /\ [][C8_Step]_vars

C8_Witness ==
    /\ last.op = "signup"
    /\ last.resp.status = 409
    /\ last.resp.body.error = Some("Email already registered")
    /\ \E i \in DOMAIN users :
          /\ Lower(users[i].email) = Lower(last.args.email)
          /\ users[i].email # last.args.email
          /\ users[i].username # last.args.username

\* C9: of signups that ask for the same email (up to letter case) or the
\* same username at most one is answered 201 and every other 409; no signup
\* that loses at the unique index is answered 500
C9_ConcurrentRegistration ==
    /\ \A p \in Signups :
          pc[p] = "done" => Get(resp[p]).status \in {201, 409}
    /\ \A p, q \in Signups :
          (/\ p # q /\ pc[p] = "done" /\ pc[q] = "done"
           /\ \/ Lower(req[p].email) = Lower(req[q].email)
              \/ req[p].username = req[q].username)
          => ~(Get(resp[p]).status = 201 /\ Get(resp[q]).status = 201)

\* the configured life of a token, in ticks
TTL(tok) == IF tok.payload.type = "access" THEN AccessTTL ELSE RefreshTTL

Accepted(tok, t) == verify_token(tok, tok.payload.type, t).ok

\* C10: a token signed at instant t is accepted by verify_token at every
\* instant before t + ttl and rejected at every instant after it
C10_TokenExpiry ==
    \A m \in minted :
        /\ now < m.at + TTL(m.token) => Accepted(m.token, now)
        /\ now > m.at + TTL(m.token) => ~Accepted(m.token, now)

\* the instants at which the server has signed a token, and the present one
MintInstants == {m.at : m \in minted} \cup {now}

\* C11: a token created for user id U at an instant t reads back as U under
\* its own type at every later instant before t + ttl, the refresh token
\* carries a jti claim, and every token the server signed is such a token
C11_TokenRoundTrip ==
    /\ \A id \in 1..MaxUsers : \A t \in MintInstants :
          /\ now < t + AccessTTL
             => get_user_id_from_token(create_access_token(id, t), "access", now)
                  = Ok(id)
          /\ now < t + RefreshTTL
             => /\ get_user_id_from_token(
                       create_refresh_token(id, t, jti_seq + 1), "refresh", now)
                     = Ok(id)
                /\ ~IsNone(create_refresh_token(id, t, jti_seq + 1).payload.jti)
    /\ \A m \in minted :
          /\ \E i \in DOMAIN users :
                m.token \in {create_access_token(users[i].id, m.at)}
                            \cup {create_refresh_token(users[i].id, m.at, j) :
                                     j \in 1..jti_seq}
          /\ m.token.payload.type = "refresh" => ~IsNone(m.token.payload.jti)

\* a refresh token signed at an earlier instant is read back by the refresh
\* endpoint
C11_Witness ==
    /\ last.op = "refresh"
    /\ last.resp.status = 200
    /\ \E m \in minted :
          /\ last.args.refresh_token = Some(m.token)
          /\ m.at < now
          /\ ~IsNone(m.token.payload.jti)
          /\ get_user_id_from_token(last.resp.cookie.value, "refresh", now)
               = get_user_id_from_token(m.token, "refresh", now)

\* a users row with this id exists and is not soft-deleted
LiveUser(id) ==
    \E i \in DOMAIN users : users[i].id = id /\ IsNone(users[i].deleted_at)

\* the refresh_token cookie c carries no usable refresh token
BadRefreshCookie(c) ==
    \/ IsNone(c)
    \/ Get(c).fmt # "jws"
    \/ Get(c).sig # JWT_SECRET_KEY
    \/ Get(c).payload.exp < timegm(now)
    \/ Get(c).payload.type # "refresh"
    \/ ~SubjectActive(Get(c))

\* refresh_tokens gives a pair naming user_id exactly for a live user, and
\* raises AuthenticationError otherwise
C12_Service ==
    \A id \in 1..MaxUsers :
        LET r == refresh_tokens(users, id, now, jti_seq + 1)
        IN  /\ LiveUser(id) => r.ok /\ TokensName(r, id)
            /\ ~LiveUser(id) => r = Raise(AuthenticationError("User not found"))

\* a refresh request with no cookie, an invalid cookie or the cookie of a
\* user that is not live is answered 401 and signs nothing; any other is
\* answered 200 with a new pair naming the subject of the cookie
C12_Step ==
    (Idle /\ last'.op = "refresh")
    => IF BadRefreshCookie(last'.args.refresh_token)
       THEN /\ last'.resp.status = 401
            /\ last'.resp.body.data = None
            /\ last'.resp.cookie = NoCookie
            /\ minted' = minted
       ELSE LET id == UUIDOfStr(Get(last'.args.refresh_token).payload.sub)
            IN  /\ last'.resp.status = 200
                /\ get_user_id_from_token(
                       Get(last'.resp.body.data).access_token, "access", now) = Ok(id)
                /\ get_user_id_from_token(
                       last'.resp.cookie.value, "refresh", now) = Ok(id)
                /\ minted' = minted \cup
                       Mint({Get(last'.resp.body.data).access_token,
                             last'.resp.cookie.value}, now)

\* C12: rotation gives a new pair only for a user that exists and is not
\* soft-deleted; every other refresh is answered 401 and signs no token
C12_RotationRequiresLiveUser == []C12_Service /\ [][C12_Step]_vars

C12_Witness ==
    /\ last.op = "refresh"
    /\ last.resp.status = 401
    /\ last.resp.body.error = Some("User not found")
    /\ ~IsNone(last.args.refresh_token)
    /\ Get(last.args.refresh_token) \in issued
    /\ Get(last.args.refresh_token).payload.type = "refresh"
    /\ Get(last.args.refresh_token).payload.exp >= timegm(now)
    /\ ~SubjectActive(Get(last.args.refresh_token))

\* refresh token R has been replaced: a refresh token with a later jti names
\* the same subject
Superseded(R) ==
    \E n \in issued :
        /\ n.payload.type = "refresh"
        /\ n.payload.sub = R.payload.sub
        /\ Get(n.payload.jti) > Get(R.payload.jti)

\* C13 (the service): every signed refresh token that has been replaced, is
\* unexpired and names an active user still passes get_refresh_token_user_id
\* and refresh_tokens
C13_StillValid ==
    \A R \in issued :
        (/\ R.payload.type = "refresh"
         /\ Superseded(R)
         /\ R.payload.exp >= timegm(now)
         /\ SubjectActive(R))
        => LET id == get_refresh_token_user_id(Some(R), now)
           IN  id.ok /\ refresh_tokens(users, id.val, now, jti_seq + 1).ok

\* C13 (the endpoint): a refresh request that presents such a token is
\* answered 200 with a refresh token never signed before, and no refresh
\* request writes the users or todos table
C13_Step ==
    (Idle /\ last'.op = "refresh")
    => /\ users' = users /\ todos' = todos
       /\ \A R \in issued :
             (/\ last'.args.refresh_token = Some(R)
              /\ R.payload.type = "refresh"
              /\ Superseded(R)
              /\ R.payload.exp >= timegm(now)
              /\ SubjectActive(R))
             => /\ last'.resp.status = 200
                /\ last'.resp.cookie.op = "set"
                /\ last'.resp.cookie.value \notin issued
                /\ last'.resp.cookie.value.payload.sub = R.payload.sub
                /\ last'.resp.cookie.value \in issued'

RefreshOutcome(R, U, t, jti) ==
    LET id == get_refresh_token_user_id(Some(R), t)
    IN  IF id.ok THEN refresh_tokens(U, id.val, t, jti) ELSE id

\* C14: a logout with a valid access token is answered 200 and deletes the
\* refresh_token cookie, any other logout is answered 401; a logout writes
\* nothing, so the gate and the refresh endpoint treat every signed token,
\* the one used for the logout included, after it exactly as before it
C14_Step ==
    (Idle /\ last'.op = "logout")
    => /\ IF CallerOf(last').ok
          THEN /\ last'.resp.status = 200
               /\ last'.resp.cookie = DeleteCookie
               /\ get_current_user(last'.authorization, users', now').ok
          ELSE /\ last'.resp.status = 401
               /\ last'.resp.cookie = NoCookie
       /\ users' = users /\ todos' = todos /\ minted' = minted
       /\ \A tok \in issued :
             /\ get_current_user(Some(tok), users', now')
                  = get_current_user(Some(tok), users, now)
             /\ RefreshOutcome(tok, users', now', jti_seq' + 1)
                  = RefreshOutcome(tok, users, now, jti_seq + 1)

C14_LogoutCookieOnly == [][C14_Step]_vars

\* after a logout the gate accepts the access token that was used for it and
\* the refresh endpoint a refresh token of the same user
C14_Witness ==
    /\ last.op = "logout"
    /\ last.resp.status = 200
    /\ last.resp.cookie = DeleteCookie
    /\ CallerOf(last).ok
    /\ \E R \in issued :
          /\ R.payload.type = "refresh"
          /\ R.payload.sub = Get(last.authorization).payload.sub
          /\ RefreshOutcome(R, users, now, jti_seq + 1).ok

\* the rows of the todos table that belong to uid, are not soft-deleted and
\* pass the optional status and priority filters
Matching(uid, status, priority) ==
    {i \in DOMAIN todos :
        /\ todos[i].user_id = uid
        /\ IsNone(todos[i].deleted_at)
        /\ IsNone(status) \/ todos[i].status = Get(status)
        /\ IsNone(priority) \/ todos[i].priority = Get(priority)}

\* r is a right answer to list_todos(uid, page, per_page, status, priority)
ListOwnerScoped(r, uid, page, per_page, status, priority) ==
    /\ \A k \in DOMAIN r.items :
          \E i \in Matching(uid, status, priority) :
              r.items[k] = TodoResponse(todos[i])
    /\ r.total = Cardinality(Matching(uid, status, priority))
    /\ (page = 1 /\ per_page >= r.total)
       => {r.items[k].id : k \in DOMAIN r.items}
            = {todos[i].id : i \in Matching(uid, status, priority)}

ListStatuses == {None, Some("pending"), Some("completed")}
ListPriorities == {None, Some("high")}
ListPages == {1, MaxTodos}
ListPerPages == {1, 20}

\* C15: in every state of the tables, for every user and every choice of
\* filters and page, list_todos returns only that user's non-deleted tasks
\* that pass the filters, counts all of them in total, and with a page that
\* covers them returns every one; the list endpoint answers with that result
C15_ListingOwnerScoped ==
    /\ \A uid \in 1..MaxUsers, st \in ListStatuses, pr \in ListPriorities,
          page \in ListPages, per_page \in ListPerPages,
          sort_order \in {"asc", "desc"} :
          ListOwnerScoped(
              list_todos(todos, uid, page, per_page, st, pr, sort_order),
              uid, page, per_page, st, pr)
    /\ (last.op = "list_todos" /\ last.resp.status = 200)
       => ListOwnerScoped(Get(last.resp.body.data), CallerOf(last).val.id,
                          last.args.page, last.args.per_page,
                          last.args.status, last.args.priority)

\* a filtered list is answered with a task of the caller while another user
\* has a task that passes the filter
C15_Witness ==
    /\ last.op = "list_todos"
    /\ last.resp.status = 200
    /\ ~IsNone(last.args.status)
    /\ Len(Get(last.resp.body.data).items) > 0
    /\ \E i \in DOMAIN todos :
          /\ todos[i].user_id # CallerOf(last).val.id
          /\ todos[i].status = Get(last.args.status)
          /\ IsNone(todos[i].deleted_at)

\* the j-th of the rows M of the todos table in the order of their insertion
NthOf(M, j) == CHOOSE i \in M : Cardinality({x \in M : x <= i}) = j

\* r is the answer to a list of uid with these parameters and no filter:
\* total_pages is total / per_page rounded up, and the items are those at
\* offsets (page-1)*per_page .. page*per_page-1 of the sorted matching rows
PageOf(r, uid, page, per_page, sort_order) ==
    LET M == Matching(uid, None, None)
        total == Cardinality(M)
        offset == (page - 1) * per_page
        left == IF total > offset THEN total - offset ELSE 0
    IN  /\ r.total = total
        /\ r.page = page /\ r.per_page = per_page
        /\ r.total_pages * per_page >= total
        /\ r.total_pages > 0 => (r.total_pages - 1) * per_page < total
        /\ total = 0 => r.total_pages = 0
        /\ Len(r.items) = IF left < per_page THEN left ELSE per_page
        /\ page > r.total_pages => r.items = <<>>
        /\ \A k \in DOMAIN r.items :
              r.items[k] =
                  TodoResponse(todos[NthOf(M, IF sort_order = "asc"
                                              THEN offset + k
                                              ELSE total + 1 - (offset + k))])

\* C16: every answer of the list endpoint has total_pages = ceil(total /
\* per_page), 0 for no rows, at most per_page items, exactly the rows of the
\* page, and no item on a page past the last
C16_PaginationArithmetic ==
    (last.op = "list_todos" /\ last.resp.status = 200)
    => PageOf(Get(last.resp.body.data), CallerOf(last).val.id,
              last.args.page, last.args.per_page, last.args.sort_order)

\* 50 matching rows, page 2 of 10 per page: 5 pages, 10 items
C16_Witness ==
    /\ last.op = "list_todos"
    /\ last.resp.status = 200
    /\ last.args.page = 2 /\ last.args.per_page = 10
    /\ Get(last.resp.body.data).total = 50
    /\ Get(last.resp.body.data).total_pages = 5
    /\ Len(Get(last.resp.body.data).items) = 10

\* C17: a task created by a request is stamped with the id of the authenticated
\* caller, whatever the request body says
C17_Stamped ==
    (Idle /\ last'.op = "create_todo" /\ last'.resp.status = 201)
    => /\ Len(todos') = Len(todos) + 1
       /\ todos'[Len(todos')].user_id = CallerOf(last').val.id
       /\ Get(last'.resp.body.data).user_id = CallerOf(last').val.id

\* C17: no step (update, soft delete or any other) changes the owner of a task
C17_Immutable ==
    /\ Len(todos') >= Len(todos)
    /\ \A i \in DOMAIN todos :
           /\ todos'[i].id = todos[i].id
           /\ todos'[i].user_id = todos[i].user_id

\* C17: the owner of a task is the authenticated creator, and stays so
C17_OwnerStampedImmutable == [][C17_Stamped /\ C17_Immutable]_vars

\* a caller creates a task with a body naming another user as owner, after
\* having updated a task of theirs with such a body and soft-deleted it
C17_Witness ==
    /\ last.op = "create_todo"
    /\ last.resp.status = 201
    /\ "user_id" \in DOMAIN last.args
    /\ Len(todos) = 2
    /\ todos[2].user_id # last.args.user_id
    /\ todos[1].user_id = todos[2].user_id
    /\ todos[1].title = <<"Renamed", "The", "report">>
    /\ todos[1].deleted_at # None

\* the fields of the request of `r` that the update schema declares
Supplied(r) == DOMAIN r.args.data \cap {"title", "description", "status", "priority", "due_date"}

\* C18: a successful update sets the fields the request supplies and
\* updated_at, recomputes tags when title or description is supplied, keeps
\* every other field of the task, and leaves every other task as it was
C18_Step ==
    (Idle /\ last'.op = "update_todo" /\ last'.resp.status = 200)
    => /\ DOMAIN todos' = DOMAIN todos
       /\ \A i \in DOMAIN todos :
              IF todos[i].id # last'.args.todo_id
              THEN todos'[i] = todos[i]
              ELSE /\ \A f \in Supplied(last') : todos'[i][f] = last'.args.data[f]
                   /\ todos'[i].updated_at = now
                   /\ todos'[i].tags =
                          IF Supplied(last') \cap {"title", "description"} # {}
                          THEN extract_tags(todos'[i].title, todos'[i].description)
                          ELSE todos[i].tags
                   /\ \A f \in DOMAIN todos[i] \ (Supplied(last') \cup {"updated_at", "tags"}) :
                          todos'[i][f] = todos[i][f]
                   /\ \A f \in {"id", "user_id", "created_at", "deleted_at"} :
                          todos'[i][f] = todos[i][f]

C18_PartialUpdateFrame == [][C18_Step]_vars

\* a task created with a description is renamed some time later, next to
\* another task: its tags follow the new title and the description it kept
C18_Witness ==
    /\ last.op = "update_todo"
    /\ last.resp.status = 200
    /\ Supplied(last) = {"title", "priority"}
    /\ Len(todos) = 2
    /\ \E i \in DOMAIN todos :
           /\ todos[i].id = last.args.todo_id
           /\ todos[i].description = Some(<<"2", "litres">>)
           /\ todos[i].status = "in_progress"
           /\ todos[i].tags = <<"work", "litres", "renamed", "report">>
           /\ todos[i].updated_at > todos[i].created_at
           /\ todos[i].updated_at = now

\* C19: every response that is an envelope has exactly one of data and error
\* non-null: data when success is true, error when success is false
C19_ResponseEnvelope ==
    (last.op # "none" /\ "success" \in DOMAIN last.resp.body)
    => LET body == last.resp.body
       IN  IF body.success
           THEN body.data # None /\ body.error = None
           ELSE body.error # None /\ body.data = None

\* an active user other than user_id has the username
TakenByOther(user_id, name) ==
    \E i \in DOMAIN users :
        /\ users[i].id # user_id
        /\ IsNone(users[i].deleted_at)
        /\ users[i].username = name

UsernameTakenResponse ==
    [status |-> 409,
     body |-> [success |-> FALSE, data |-> None,
               error |-> Some("Username already taken"), timestamp |-> now],
     cookie |-> NoCookie]

\* C20: a username change by user U to a name another active user has is
\* answered 409 "Username already taken" and changes nothing; to a free name
\* or to U's own name it succeeds and U has the name afterwards
C20_Step ==
    (/\ Idle
     /\ last'.op = "update_profile"
     /\ CallerOf(last').ok
     /\ last'.args.username # None)
    => LET U == CallerOf(last').val.id
           name == Get(last'.args.username)
       IN  IF TakenByOther(U, name)
           THEN last'.resp = UsernameTakenResponse /\ users' = users
           ELSE /\ last'.resp.status = 200
                /\ Get(last'.resp.body.data).username = name
                /\ \A i \in DOMAIN users :
                       users'[i].username = IF users[i].id = U THEN name
                                            ELSE users[i].username

\* C20: update_username for a user id that no row has fails with NotFound
C20_NotFound ==
    \A name \in Usernames \cup {"carol"} :
        LET r == update_username(users, Len(users) + 1, name, now)
        IN  ~r.ok /\ r.exc = NotFoundError("User not found")

\* C20: no two active users share a username
C20_ActiveUnique ==
    \A i, j \in DOMAIN users :
        (/\ i # j
         /\ IsNone(users[i].deleted_at)
         /\ IsNone(users[j].deleted_at))
        => users[i].username # users[j].username

\* C20: username changes conflict exactly on names of other active users,
\* succeed otherwise, fail with NotFound for unknown users, and keep the
\* usernames of active users distinct
C20_UsernameChange == [](C20_NotFound /\ C20_ActiveUnique) /\ [][C20_Step]_vars

\* the ids stored in the CLI store
StoredIds == {_todos[j].id : j \in DOMAIN _todos}

\* C21: a successful add returns the next id, which is one more than the
\* number of adds before it, and stores the todo under it; no other call
\* moves the next id; an id that enters the store was never assigned before
C21_Step ==
    /\ (out = NoCall /\ out'.op = "add" /\ out'.ok)
       => /\ out'.res.id = _next_id
          /\ _next_id' = _next_id + 1
          /\ StoredIds' = StoredIds \cup {_next_id}
    /\ (out = NoCall /\ out'.op # "add") => _next_id' = _next_id
    /\ StoredIds' \ StoredIds \subseteq {id \in StoredIds' : id >= _next_id}

\* C21: ids start at 1, stored ids are distinct and smaller than the next id
C21_Ids ==
    /\ _next_id >= 1
    /\ \A j \in DOMAIN _todos : _todos[j].id \in 1..(_next_id - 1)
    /\ \A j, k \in DOMAIN _todos : j # k => _todos[j].id # _todos[k].id

ById == {"get", "update", "delete", "mark_complete", "mark_incomplete"}

\* C22: a delete of a stored id removes that todo and nothing else
C22_Delete ==
    (out = NoCall /\ out'.op = "delete" /\ out'.args.todo_id \in StoredIds)
    => /\ out'.ok
       /\ Len(_todos') = Len(_todos) - 1
       /\ StoredIds' = StoredIds \ {out'.args.todo_id}
       /\ \A j \in DOMAIN _todos :
              _todos[j].id # out'.args.todo_id
              => \E k \in DOMAIN _todos' : _todos'[k] = _todos[j]

\* C22: a call on an id that is not stored raises TodoNotFoundError and
\* leaves the store as it was
C22_Missing ==
    (out = NoCall /\ out'.op \in ById /\ out'.args.todo_id \notin StoredIds)
    => /\ ~out'.ok
       /\ out'.res = TodoNotFoundError(out'.args.todo_id)
       /\ _todos' = _todos
       /\ _next_id' = _next_id

\* C22: an id that was assigned and is no longer stored stays out of the store
C22_Gone ==
    \A id \in 1..(_next_id - 1) : id \notin StoredIds => id \notin StoredIds'

\* C22: the count goes up by one with an add, down by one with a successful
\* delete, and is moved by nothing else; count() returns it
C22_Count ==
    /\ Len(_todos') =
          IF out = NoCall /\ out'.op = "add" /\ out'.ok THEN Len(_todos) + 1
          ELSE IF out = NoCall /\ out'.op = "delete" /\ out'.ok THEN Len(_todos) - 1
          ELSE Len(_todos)
    /\ (out = NoCall /\ out'.op = "count") => out'.ok /\ out'.res = Len(_todos)

ListsExactly(list, statuses) ==
    /\ \A k \in 1..(Len(list) - 1) : list[k].id < list[k + 1].id
    /\ {list[k] : k \in DOMAIN list} =
          {_todos[j] : j \in {i \in DOMAIN _todos : _todos[i].status \in statuses}}

\* C23: get_all() of the store returns every stored todo once in ascending
\* id order, and get_all(status) the stored todos of that status
C23_Store ==
    /\ ListsExactly(TodoStore_get_all(_todos, _next_id, None).val, {COMPLETE, INCOMPLETE})
    /\ \A st \in {COMPLETE, INCOMPLETE} :
           ListsExactly(TodoStore_get_all(_todos, _next_id, Some(st)).val, {st})

\* C23: the outcome of a get_all call on the store is that list
C23_StoreCall ==
    out.op = "get_all"
    => /\ out.ok
       /\ ListsExactly(out.res, IF IsNone(out.args.status_filter)
                                THEN {COMPLETE, INCOMPLETE}
                                ELSE {Get(out.args.status_filter)})

\* the spellings of the two filter texts
SpellingsOfComplete ==
    {StrComplete, <<"C", "O", "M", "P", "L", "E", "T", "E">>,
     <<"C", "o", "m", "p", "l", "e", "t", "e">>}
SpellingsOfIncomplete ==
    {StrIncomplete, <<"I", "N", "C", "O", "M", "P", "L", "E", "T", "E">>,
     <<"I", "n", "C", "o", "m", "p", "l", "e", "t", "e">>}

\* C23: the service takes "complete" and "incomplete" in any case
C23_Service ==
    /\ \A f \in SpellingsOfComplete :
           ListsExactly(TodoService_get_all_todos(_todos, _next_id, Some(f)).val, {COMPLETE})
    /\ \A f \in SpellingsOfIncomplete :
           ListsExactly(TodoService_get_all_todos(_todos, _next_id, Some(f)).val,
                        {INCOMPLETE})
    /\ ListsExactly(TodoService_get_all_todos(_todos, _next_id, None).val,
                    {COMPLETE, INCOMPLETE})

PositiveIds ==
    {IntId(n) : n \in 1..(MaxAdds + 1)} \cup {StrId(<<"1">>), StrId(<<"0", "2">>)}

\* the positive integer such an id means
IdValue(todo_id) ==
    IF todo_id.is_int THEN todo_id.n
    ELSE IF todo_id.text = <<"1">> THEN 1 ELSE 2

\* the title is empty or whitespace
BlankTitles == {<<>>, <<" ">>}

\* what a title is stored as
StrippedTitle(title) == IF title = <<" ", "a", " ">> THEN <<"a">> ELSE title

\* C24: update_todo raises ValidationError when neither field is given,
\* else InvalidIdError when the id is no positive integer, else EmptyTitleError
\* when the given title is blank, else TodoNotFoundError when the id is not
\* stored, each time leaving the store unchanged; otherwise it changes the
\* supplied title (stripped) and description of that todo and nothing else
C24_Update ==
    (out = NoCall /\ out'.op = "update_todo")
    => LET a == out'.args
           failed(exc) == /\ ~out'.ok
                          /\ out'.res = exc
                          /\ _todos' = _todos
                          /\ _next_id' = _next_id
       IN  IF a.title = None /\ a.description = None
           THEN failed(ValidationError("Specify --title or --description to update"))
           ELSE IF a.todo_id \notin PositiveIds THEN failed(InvalidIdError)
           ELSE IF a.title # None /\ Get(a.title) \in BlankTitles
           THEN failed(EmptyTitleError)
           ELSE IF IdValue(a.todo_id) \notin StoredIds
           THEN failed(TodoNotFoundError(IdValue(a.todo_id)))
           ELSE /\ out'.ok
                /\ _next_id' = _next_id
                /\ DOMAIN _todos' = DOMAIN _todos
                /\ \A j \in DOMAIN _todos :
                       IF _todos[j].id # IdValue(a.todo_id) THEN _todos'[j] = _todos[j]
                       ELSE /\ _todos'[j] =
                                 [_todos[j] EXCEPT
                                    !.title = IF a.title = None THEN @
                                              ELSE StrippedTitle(Get(a.title)),
                                    !.description = IF a.description = None THEN @
                                                    ELSE Get(a.description)]
                            /\ out'.res = _todos'[j]

\* C24: create_todo with a blank title raises EmptyTitleError and consumes
\* no id; with any other title it stores the stripped title
C24_Create ==
    (out = NoCall /\ out'.op = "create_todo")
    => IF out'.args.title \in BlankTitles
       THEN /\ ~out'.ok
            /\ out'.res = EmptyTitleError
            /\ _todos' = _todos
            /\ _next_id' = _next_id
       ELSE /\ out'.ok
            /\ out'.res.id = _next_id
            /\ out'.res.title = StrippedTitle(out'.args.title)

C25_Created ==
    \A j \in DOMAIN _todos' :
        _todos'[j].id \notin StoredIds => _todos'[j].status = INCOMPLETE

\* C25: mark_complete and mark_incomplete of a stored id leave that todo
\* COMPLETE, respectively INCOMPLETE, whatever it was, and change nothing
\* else of it and no other todo
C25_Mark ==
    (/\ out = NoCall
     /\ out'.op \in {"mark_complete", "mark_incomplete"}
     /\ out'.args.todo_id \in StoredIds)
    => LET status == IF out'.op = "mark_complete" THEN COMPLETE ELSE INCOMPLETE
       IN  /\ out'.ok
           /\ out'.res.status = status
           /\ DOMAIN _todos' = DOMAIN _todos
           /\ \A j \in DOMAIN _todos :
                  _todos'[j] = IF _todos[j].id = out'.args.todo_id
                               THEN [_todos[j] EXCEPT !.status = status]
                               ELSE _todos[j]

\* C25: applying either call to its own result changes nothing more, and of
\* the two calls in a row the second decides
C25_Algebra ==
    \A id \in StoredIds :
        LET c == TodoStore_mark_complete(_todos, _next_id, id)
            i == TodoStore_mark_incomplete(_todos, _next_id, id)
        IN  /\ TodoStore_mark_complete(c.todos, c.next_id, id).todos = c.todos
            /\ TodoStore_mark_incomplete(i.todos, i.next_id, id).todos = i.todos
            /\ TodoStore_mark_incomplete(c.todos, c.next_id, id).todos = i.todos
            /\ TodoStore_mark_complete(i.todos, i.next_id, id).todos = c.todos

C26_WellFormed ==
    \A i \in DOMAIN todos :
        /\ TextChars(todos[i].title) >= 1
        /\ TextChars(todos[i].title) <= 255
        /\ todos[i].status \in {"pending", "in_progress", "completed"}
        /\ todos[i].priority \in {"low", "medium", "high"}

C26_TitleOnly ==
    (/\ last.op = "create_todo"
     /\ last.resp.status = 201
     /\ DOMAIN last.args = {"title"})
    => \E i \in DOMAIN todos :
           /\ todos[i].id = last.resp.body.data[1].id
           /\ todos[i].title = last.args.title
           /\ todos[i].status = "pending"
           /\ todos[i].priority = "medium"

C26_StoredTaskWellFormed == C26_WellFormed /\ C26_TitleOnly

\* an update whose body gives null for the status is accepted by the schema
\* and answered 500, next to a task of 255 characters created with a status
\* and a priority typed in another spelling
C26_Witness ==
    /\ last.op = "update_todo"
    /\ "status" \in Nulls(last.args.data)
    /\ TodoUpdate_valid(last.args.data)
    /\ last.resp.status = 500
    /\ \E i \in DOMAIN todos :
           /\ todos[i].id = last.args.todo_id
           /\ TextChars(todos[i].title) = 255
           /\ todos[i].status = "in_progress"
           /\ todos[i].priority = "high"

(***************************************************************************)
(* C27: derived tags.  Every stored task has at most 5 tags, and they are  *)
(* the tags extract_tags gives for its current title and description; an   *)
(* update that supplies neither title nor description leaves the tags of   *)
(* every task as they were, and one that supplies either stores the tags   *)
(* of the title and description the task then has.                         *)
(***************************************************************************)
C27_Derived ==
    \A i \in DOMAIN todos :
        /\ Len(todos[i].tags) <= 5
        /\ todos[i].tags = extract_tags(todos[i].title, todos[i].description)

C27_Step ==
    (/\ last'.op = "update_todo"
     /\ last # last'
     /\ last'.resp.status = 200)
    => /\ Len(todos') = Len(todos)
       /\ \A i \in DOMAIN todos :
              IF /\ todos[i].id = last'.args.todo_id
                 /\ Supplied(last') \cap {"title", "description"} # {}
              THEN todos'[i].tags = extract_tags(todos'[i].title, todos'[i].description)
              ELSE todos'[i].tags = todos[i].tags

C27_DerivedTags == []C27_Derived /\ [][C27_Step]_vars

\* a task whose words match six categories holds the first five as its
\* tags, after an update of its status alone; another task's new title
\* brought it five tags with more significant words left over
C27_Witness ==
    /\ last.op = "update_todo"
    /\ last.resp.status = 200
    /\ Supplied(last) = {"status"}
    /\ \E i, j \in DOMAIN todos :
           /\ todos[i].id = last.args.todo_id
           /\ todos[i].title = <<"report", "budget", "gym", "Test", "Buy">>
           /\ todos[i].tags = <<"work", "finance", "health", "learning", "tech">>
           /\ todos[j].title = <<"litres", "mail", "milk!", "Renamed", "budget">>
           /\ todos[j].tags = <<"finance", "errands", "budget", "litres", "mail">>

(***************************************************************************)
(* C28: user record frame.  No request changes the id, email,              *)
(* password_hash, created_at or deleted_at of a user that exists, and no   *)
(* request removes a user; a username changes only in a profile update     *)
(* that is answered 200 and that carried an access token whose subject is  *)
(* that user.                                                              *)
(***************************************************************************)
IsRequestStep == last' # last /\ last'.op # "none"

C28_Step ==
    IsRequestStep
    => /\ Len(users') >= Len(users)
       /\ \A i \in DOMAIN users :
              /\ users'[i].id = users[i].id
              /\ users'[i].email = users[i].email
              /\ users'[i].password_hash = users[i].password_hash
              /\ users'[i].created_at = users[i].created_at
              /\ users'[i].deleted_at = users[i].deleted_at
              /\ users'[i].username # users[i].username
                 => /\ last'.op = "update_profile"
                    /\ last'.resp.status = 200
                    /\ last'.args.username = Some(users'[i].username)
                    /\ ~IsNone(last'.authorization)
                    /\ Get(last'.authorization).payload.type = "access"
                    /\ Get(last'.authorization).payload.sub = StrOfUUID(users[i].id)

C28_UserRecordFrame == [][C28_Step]_vars

\* the second of two users has renamed itself some time after it signed
\* up, and a later request of the first user, who has a task, was answered
C28_Witness ==
    /\ Len(users) = 2
    /\ users[1].username = Alice.username
    /\ users[2].username = "carol"
    /\ users[2].updated_at > users[2].created_at
    /\ Len(todos) = 1
    /\ last.op \in {"login", "refresh", "logout", "get_profile", "update_todo"}
    /\ last.resp.status = 200

(***************************************************************************)
(* C29: request atomicity.  A request that is answered with an error       *)
(* (conflict on signup or on a username change, task not found, token or   *)
(* password refused, or an exception no handler expects) leaves the        *)
(* committed users and todos tables exactly as they were before it; a      *)
(* request changes a table only when its handler returned.                 *)
(***************************************************************************)
C29_Step ==
    (IsRequestStep /\ last'.resp.status >= 400)
    => users' = users /\ todos' = todos

C29_RequestAtomicity == [][C29_Step]_vars

\* an update of the status of an owner's live task was flushed, the database
\* then failed, the answer is 500 and the task is as it was
C29_Witness ==
    /\ last.op = "update_todo"
    /\ last.args.data = [status |-> "completed"]
    /\ last.resp.status = 500
    /\ ~IsNone(last.authorization)
    /\ \E i \in DOMAIN todos :
           /\ todos[i].id = last.args.todo_id
           /\ todos[i].user_id = UUIDOfStr(Get(last.authorization).payload.sub)
           /\ IsNone(todos[i].deleted_at)
           /\ todos[i].status = "pending"

(***************************************************************************)
(* C30: soft delete is permanent.  No step resets the deleted_at of a task *)
(* that has one, also when an update and a delete of the same task run     *)
(* next to each other and the update, which read the task as live, writes  *)
(* after the delete has committed; a delete that was answered 200 leaves   *)
(* its task with deleted_at set from then on; and no later get or list     *)
(* answers with a task whose deleted_at is set.                            *)
(***************************************************************************)
C30_Step ==
    /\ Len(todos') >= Len(todos)
    /\ \A i \in DOMAIN todos :
           ~IsNone(todos[i].deleted_at) => ~IsNone(todos'[i].deleted_at)
    /\ (IsRequestStep /\ last'.op = "get_todo" /\ last'.resp.status = 200)
       => \E i \in DOMAIN todos :
              todos[i].id = last'.args.todo_id /\ IsNone(todos[i].deleted_at)
    /\ (IsRequestStep /\ last'.op = "list_todos" /\ last'.resp.status = 200)
       => \A k \in DOMAIN Get(last'.resp.body.data).items :
              \E i \in DOMAIN todos :
                  /\ todos[i].id = Get(last'.resp.body.data).items[k].id
                  /\ IsNone(todos[i].deleted_at)

C30_Deleted ==
    /\ \A p \in Signups :
           (/\ pc[p] = "done"
            /\ req[p].op = "delete_todo"
            /\ Get(resp[p]).status = 200)
           => \E i \in DOMAIN todos :
                  todos[i].id = req[p].todo_id /\ ~IsNone(todos[i].deleted_at)
    /\ (last.op = "delete_todo" /\ last.resp.status = 200)
       => \E i \in DOMAIN todos :
              todos[i].id = last.args.todo_id /\ ~IsNone(todos[i].deleted_at)

C30_SoftDeletePermanent == []C30_Deleted /\ [][C30_Step]_vars

\* an update and a delete of the same task were both answered 200, the
\* update having written its status after the delete stamped deleted_at; the
\* task is still deleted, and a get of it is answered 404
C30_Witness ==
    /\ \E p, q \in Signups :
           /\ pc[p] = "done" /\ pc[q] = "done"
           /\ req[p].op = "update_todo" /\ req[q].op = "delete_todo"
           /\ req[p].todo_id = req[q].todo_id
           /\ Get(resp[p]).status = 200 /\ Get(resp[q]).status = 200
           /\ \E i \in DOMAIN todos :
                  /\ todos[i].id = req[p].todo_id
                  /\ todos[i].status = "completed"
                  /\ ~IsNone(todos[i].deleted_at)
                  /\ todos[i].updated_at > Get(todos[i].deleted_at)
           /\ last.op = "get_todo"
           /\ last.args.todo_id = req[p].todo_id
           /\ last.resp.status = 404

====
